---------------------------- MODULE Spec2Model ----------------------------
(***************************************************************************)
(* A model of the planning core of clab-tools:                             *)
(*   - classify_router / build_bgp_plan        (src/bgp-wizard.py)         *)
(*   - get_router_role / link_to_ospf / main   (src/ospf-wizard.py)        *)
(*   - next_ipv4 / main                        (src/loop-the-loop.py)      *)
(*   - save_config                             (src/get_forti_config.py,   *)
(*                                              src/get_forti_config_tftp.py) *)
(*   - run_install_mode                        (src/fortilic.py)           *)
(* Python strings that the code inspects by prefix, suffix or order are    *)
(* sequences of one-character strings.                                     *)
(***************************************************************************)
EXTENDS Integers, Sequences, FiniteSets, TLC

VARIABLES
    \* --- classifier harness -------------------------------------------
    c_name,            \* the name handed to both classifiers
    c_bgp,             \* result of classify_router(c_name), NoResult before the call
    c_ospf,            \* result of get_router_role(c_name), NoResult before the call
    \* --- bgp-wizard: build_bgp_plan -------------------------------------
    b_pc,              \* "idle" | "ready" | "planned"
    nodes_info,        \* list of node dicts {name, role, loopback}
    raw_plan,          \* plan as it stands before the dedup loop (line 345)
    plan,              \* plan returned by build_bgp_plan
    warnings,          \* the warnings printed by the validation loop, in order
    plan_again,        \* plan returned by a second call on the same arguments
    warnings_again,    \* the warnings printed by that second call
    \* --- bgp-wizard: main ------------------------------------------------
    nodes_raw,         \* the XRd nodes of the lab: name and the device's Loopback0
    missing,           \* main: the nodes reported as missing a Loopback0
    b_exported,        \* names whose <name>.cfg the export wrote, in order
    b_confirm,         \* answer to the push prompt, NoResult before it
    b_pushed,          \* names push_config was called for, in order
    b_configs,         \* per node, the configuration generate_config_lines returned
    \* --- ospf-wizard: main ----------------------------------------------
    o_pc,              \* "idle" | "mode" | "preview" | "confirm" | "apply" | "done" | "aborted"
    enforce_fallback,  \* main: mode == "b"
    force_all,         \* main: user accepted the automatic fallback
    routers,           \* list of XRd router names from containerlab inspect
    links,             \* physical links of the lab, the source of LLDP output
    o_idx,             \* position of the running for-loop over routers
    preview,           \* main: preview[name] = {role, rid, processes, neighbors}
    pushed,            \* per router, what configure_ospf sent (NotConfigured if nothing)
    loopback0,         \* per router, the address on its Loopback0, None without one
    link_count_tracker,\* the module-level dict link_count_tracker
    o_confirm,         \* answer to the push prompt, NoResult before it
    \* --- loop-the-loop: main --------------------------------------------
    l_pc,              \* "idle" | "run" | "done"
    xrd_nodes,         \* main: the names of the XRd routers, in inspect order
    POOLS,             \* the module-level dict POOLS: pool key -> its "counter"
    l_configured,      \* per configure_loopback call: name, ipv4 and ipv6 pushed
    \* --- get_forti_config / get_forti_config_tftp: save_config ------------
    config_dir,        \* the files of one node's config directory: suffix -> content
    saved,             \* the configs the calls were given to store, latest first
    stored,            \* the configs the calls did store, latest first
    \* --- fortilic: run_install_mode ---------------------------------------
    f_pc,              \* "idle" | "start" | "loop" | "crashed"
    f_runs,            \* number of runs of fortilic started so far
    dry_run,           \* run_install_mode: the parameter dry_run
    lic_dir,           \* the license directory: license file -> its current name
    tftp_dir,          \* the names of the license files in the TFTP directory
    chosen_nodes,      \* run_install_mode: the hostnames selected, in order
    available_licenses,\* run_install_mode: the unused license paths left
    f_idx,             \* position of the loop over chosen_nodes
    summary,           \* run_install_mode: (hostname, result) per device
    installed          \* (hostname, license file) per restore that reported success, in order

classify_vars == <<c_name, c_bgp, c_ospf>>
bgp_main_vars == <<nodes_raw, missing, b_exported, b_confirm, b_pushed, b_configs>>
bgp_vars      == <<b_pc, nodes_info, raw_plan, plan, warnings, plan_again, warnings_again,
                   bgp_main_vars>>
ospf_vars     == <<o_pc, enforce_fallback, force_all, routers, links, o_idx, preview, pushed,
                   loopback0, link_count_tracker, o_confirm>>
loop_vars     == <<l_pc, xrd_nodes, POOLS, l_configured>>
cfg_vars      == <<config_dir, saved, stored>>
lic_vars      == <<f_pc, f_runs, dry_run, lic_dir, tftp_dir, chosen_nodes,
                   available_licenses, f_idx, summary, installed>>
tools_vars    == <<loop_vars, cfg_vars, lic_vars>>
vars          == <<classify_vars, bgp_vars, ospf_vars, tools_vars>>

---------------------------------------------------------------------------
(* Strings *)

\* str.startswith(prefix)
StartsWith(s, p) ==
    /\ Len(s) >= Len(p)
    /\ SubSeq(s, 1, Len(p)) = p

\* str.endswith(suffix)
EndsWith(s, p) ==
    /\ Len(s) >= Len(p)
    /\ SubSeq(s, Len(s) - Len(p) + 1, Len(s)) = p

\* str.lower() on one character; characters without a lower case map to themselves
LowerChar(ch) ==
    CASE ch = "A" -> "a"
      [] ch = "C" -> "c"
      [] ch = "D" -> "d"
      [] ch = "E" -> "e"
      [] ch = "F" -> "f"
      [] ch = "G" -> "g"
      [] ch = "H" -> "h"
      [] ch = "I" -> "i"
      [] ch = "L" -> "l"
      [] ch = "R" -> "r"
      [] ch = "S" -> "s"
      [] ch = "X" -> "x"
      [] OTHER    -> ch

\* str.lower()
Lower(s) == [i \in 1..Len(s) |-> LowerChar(s[i])]

\* all sequences over S of length at most n
RECURSIVE SeqsUpTo(_, _)
SeqsUpTo(S, n) ==
    IF n = 0 THEN {<<>>}
    ELSE LET shorter == SeqsUpTo(S, n - 1)
         IN  shorter \cup {Append(s, x) : s \in shorter, x \in S}

\* the elements of a sequence
Range(s) == {s[i] : i \in DOMAIN s}

\* concatenation of a sequence of sequences
RECURSIVE Flatten(_)
Flatten(ss) == IF ss = <<>> THEN <<>> ELSE Head(ss) \o Flatten(Tail(ss))

\* for x in xs: for y in ys: the pairs <<x, y>> in loop order
CrossSeq(xs, ys) ==
    [k \in 1..(Len(xs) * Len(ys)) |->
        <<xs[((k - 1) \div Len(ys)) + 1], ys[((k - 1) % Len(ys)) + 1]>>]

---------------------------------------------------------------------------
(* Role classification: bgp-wizard.py classify_router *)

\* outcome of a call that raised instead of returning
Raised == "<raised>"
\* value of a result variable before the call
NoResult == "<none>"
\* Python's None
None == <<>>

BgpRoles == {"ce", "crr", "ccr", "chr", "sar", "dhr", "dsr", "ahr", "asr",
             "core", "distribution", "other"}

\* classify_router with the single-letter rules tested before the tags
classify_router_generic_first(name) ==
    LET p == Lower(name) IN
    IF StartsWith(p, <<"c", "e">>) THEN "ce"
    ELSE IF StartsWith(p, <<"c">>) \/ StartsWith(p, <<"s">>) THEN "core"
    ELSE IF StartsWith(p, <<"d">>) \/ StartsWith(p, <<"a">>) THEN "distribution"
    ELSE IF StartsWith(p, <<"c", "r", "r">>) THEN "crr"
    ELSE IF StartsWith(p, <<"c", "c", "r">>) THEN "ccr"
    ELSE IF StartsWith(p, <<"c", "h", "r">>) THEN "chr"
    ELSE IF StartsWith(p, <<"s", "a", "r">>) THEN "sar"
    ELSE IF StartsWith(p, <<"d", "h", "r">>) THEN "dhr"
    ELSE IF StartsWith(p, <<"d", "s", "r">>) THEN "dsr"
    ELSE IF StartsWith(p, <<"a", "h", "r">>) THEN "ahr"
    ELSE IF StartsWith(p, <<"a", "s", "r">>) THEN "asr"
    ELSE "other"

\* a variant that indexes the first character for the single-letter rules
classify_router_idx(name) ==
    LET p == Lower(name) IN
    IF StartsWith(p, <<"c", "e">>) THEN "ce"
    ELSE IF StartsWith(p, <<"c", "r", "r">>) THEN "crr"
    ELSE IF StartsWith(p, <<"c", "c", "r">>) THEN "ccr"
    ELSE IF StartsWith(p, <<"c", "h", "r">>) THEN "chr"
    ELSE IF StartsWith(p, <<"s", "a", "r">>) THEN "sar"
    ELSE IF StartsWith(p, <<"d", "h", "r">>) THEN "dhr"
    ELSE IF StartsWith(p, <<"d", "s", "r">>) THEN "dsr"
    ELSE IF StartsWith(p, <<"a", "h", "r">>) THEN "ahr"
    ELSE IF StartsWith(p, <<"a", "s", "r">>) THEN "asr"
    ELSE IF Len(p) = 0 THEN Raised
    ELSE IF p[1] \in {"c", "s"} THEN "core"
    ELSE IF p[1] \in {"d", "a"} THEN "distribution"
    ELSE "other"

classify_router(name) ==
    LET p == Lower(name) IN
    IF StartsWith(p, <<"c", "e">>) THEN "ce"
    ELSE IF StartsWith(p, <<"c", "r", "r">>) THEN "crr"
    ELSE IF StartsWith(p, <<"c", "c", "r">>) THEN "ccr"
    ELSE IF StartsWith(p, <<"c", "h", "r">>) THEN "chr"
    ELSE IF StartsWith(p, <<"s", "a", "r">>) THEN "sar"
    ELSE IF StartsWith(p, <<"d", "h", "r">>) THEN "dhr"
    ELSE IF StartsWith(p, <<"d", "s", "r">>) THEN "dsr"
    ELSE IF StartsWith(p, <<"a", "h", "r">>) THEN "ahr"
    ELSE IF StartsWith(p, <<"a", "s", "r">>) THEN "asr"
    ELSE IF StartsWith(p, <<"c">>) \/ StartsWith(p, <<"s">>) THEN "core"
    ELSE IF StartsWith(p, <<"d">>) \/ StartsWith(p, <<"a">>) THEN "distribution"
    ELSE "other"

---------------------------------------------------------------------------
(* Role classification: ospf-wizard.py get_router_role *)

OspfRoles == {"ce", "ch", "cc", "cr", "sa", "dh", "ds", "ah", "as",
              "core", "d", "other"}

get_router_role(name) ==
    IF StartsWith(name, <<"C", "E">>) THEN "ce"
    ELSE IF StartsWith(name, <<"c", "h">>) THEN "ch"
    ELSE IF StartsWith(name, <<"c", "c">>) THEN "cc"
    ELSE IF StartsWith(name, <<"c", "r">>) THEN "cr"
    ELSE IF StartsWith(name, <<"s", "a">>) THEN "sa"
    ELSE IF StartsWith(name, <<"d", "h">>) THEN "dh"
    ELSE IF StartsWith(name, <<"d", "s">>) THEN "ds"
    ELSE IF StartsWith(name, <<"a", "h">>) THEN "ah"
    ELSE IF StartsWith(name, <<"a", "s">>) THEN "as"
    ELSE IF StartsWith(name, <<"c">>) \/ StartsWith(name, <<"s">>) THEN "core"
    ELSE IF StartsWith(name, <<"d">>) THEN "d"
    ELSE "other"

---------------------------------------------------------------------------
(* Idle values of the parts a specification does not exercise *)

ClassifyIdle ==
    /\ c_name = <<>>
    /\ c_bgp = NoResult
    /\ c_ospf = NoResult

\* main of bgp-wizard not run: nothing collected, reported, written or pushed
BgpMainIdle ==
    /\ nodes_raw = <<>>
    /\ missing = <<>>
    /\ b_exported = <<>>
    /\ b_confirm = NoResult
    /\ b_pushed = <<>>
    /\ b_configs = <<>>
    /\ plan_again = <<>>
    /\ warnings_again = <<>>

BgpIdle ==
    /\ b_pc = "idle"
    /\ nodes_info = <<>>
    /\ raw_plan = <<>>
    /\ plan = <<>>
    /\ warnings = <<>>
    /\ BgpMainIdle

OspfIdle ==
    /\ o_pc = "idle"
    /\ enforce_fallback = FALSE
    /\ force_all = FALSE
    /\ routers = <<>>
    /\ links = <<>>
    /\ o_idx = 0
    /\ preview = <<>>
    /\ pushed = <<>>
    /\ loopback0 = <<>>
    /\ link_count_tracker = <<>>
    /\ o_confirm = NoResult

\* POOLS as the module defines it: every counter 0
PoolKeys == {"crr", "c", "d", "a", "s", "CE", "other"}

LoopIdle ==
    /\ l_pc = "idle"
    /\ xrd_nodes = <<>>
    /\ POOLS = [k \in PoolKeys |-> 0]
    /\ l_configured = <<>>

\* no save_config call made: the node's config directory is empty
CfgIdle ==
    /\ config_dir = <<>>
    /\ saved = <<>>
    /\ stored = <<>>

\* fortilic not run: no license file anywhere
LicIdle ==
    /\ f_pc = "idle"
    /\ f_runs = 0
    /\ dry_run = FALSE
    /\ lic_dir = <<>>
    /\ tftp_dir = {}
    /\ chosen_nodes = <<>>
    /\ available_licenses = <<>>
    /\ f_idx = 0
    /\ summary = <<>>
    /\ installed = <<>>

\* the tools that are not run
ToolsIdle == LoopIdle /\ CfgIdle /\ LicIdle

---------------------------------------------------------------------------
(* Specification of the classifiers: every short name over the alphabet *)

\* longest name handed to the classifiers
MaxNameLen == 3

\* the letters the rules look at in both cases where it matters, a letter
\* no rule looks at, and a digit
Alphabet == {"c", "e", "r", "h", "s", "a", "d", "C", "E", "x", "1"}

InitClassify ==
    /\ c_name \in SeqsUpTo(Alphabet, MaxNameLen)
    /\ c_bgp = NoResult
    /\ c_ospf = NoResult
    /\ BgpIdle
    /\ OspfIdle
    /\ ToolsIdle

CallClassifyRouter ==
    /\ c_bgp = NoResult
    /\ c_bgp' = classify_router(c_name)
    /\ UNCHANGED <<c_name, c_ospf, bgp_vars, ospf_vars, tools_vars>>

CallGetRouterRole ==
    /\ c_ospf = NoResult
    /\ c_ospf' = get_router_role(c_name)
    /\ UNCHANGED <<c_name, c_bgp, bgp_vars, ospf_vars, tools_vars>>

NextClassify ==
    \/ CallClassifyRouter
    \/ CallGetRouterRole

SpecClassify == InitClassify /\ [][NextClassify]_vars

\* the prefixes the rules of classify_router test (on the lower-cased name)
BgpRulePrefixes ==
    {<<"c", "e">>, <<"c", "r", "r">>, <<"c", "c", "r">>, <<"c", "h", "r">>,
     <<"s", "a", "r">>, <<"d", "h", "r">>, <<"d", "s", "r">>, <<"a", "h", "r">>,
     <<"a", "s", "r">>, <<"c">>, <<"s">>, <<"d">>, <<"a">>}

\* the prefixes the rules of get_router_role test (on the name as given)
OspfRulePrefixes ==
    {<<"C", "E">>, <<"c", "h">>, <<"c", "c">>, <<"c", "r">>, <<"s", "a">>,
     <<"d", "h">>, <<"d", "s">>, <<"a", "h">>, <<"a", "s">>,
     <<"c">>, <<"s">>, <<"d">>}

\* C10: classification is total. Once classify_router or get_router_role
\* has been called on a name (the empty name included), its result is one
\* role of its closed role set (so the call returned, and returned a role),
\* and the result is "other" exactly when the name matches no rule.
Thm_C10_ClassificationTotal ==
    /\ c_bgp # NoResult =>
          /\ c_bgp \in BgpRoles
          /\ (c_bgp = "other") <=>
                (\A p \in BgpRulePrefixes : ~StartsWith(Lower(c_name), p))
    /\ c_ospf # NoResult =>
          /\ c_ospf \in OspfRoles
          /\ (c_ospf = "other") <=>
                (\A p \in OspfRulePrefixes : ~StartsWith(c_name, p))

\* the empty name has been classified by both classifiers, as "other"
Wit_C10_EmptyNameClassified ==
    /\ c_name = <<>>
    /\ c_bgp = "other"
    /\ c_ospf = "other"

---------------------------------------------------------------------------
(* bgp-wizard.py: build_bgp_plan *)

\* role_map.get(role, []): the nodes of one role, in nodes_info order
role_map(nodes, role) == SelectSeq(nodes, LAMBDA n : n.role = role)

\* role_map.get(r1, []) + role_map.get(r2, []) + ...
role_map_concat(nodes, roles) ==
    Flatten([i \in 1..Len(roles) |-> role_map(nodes, roles[i])])

\* the neighbor dict appended for peer b
NeighborEntry(b, group) ==
    [peer |-> b.loopback, peer_name |-> b.name, peer_role |-> b.role, group |-> group]

\* an append to plan[owner]["neighbors"]
Append_to(owner, nb) == [owner |-> owner, nb |-> nb]

\* add_pair with the second dict copied from the first without swapping the name
add_pair_copied_name(a, b, group_a_to_b, group_b_to_a) ==
    IF a.name # b.name
    THEN << Append_to(a.name, NeighborEntry(b, group_a_to_b)),
            Append_to(b.name, [peer |-> a.loopback, peer_name |-> b.name,
                               peer_role |-> a.role, group |-> group_b_to_a]) >>
    ELSE <<>>

\* add_pair: the appends it makes, in order
add_pair(a, b, group_a_to_b, group_b_to_a) ==
    IF a.name # b.name
    THEN << Append_to(a.name, NeighborEntry(b, group_a_to_b)),
            Append_to(b.name, NeighborEntry(a, group_b_to_a)) >>
    ELSE <<>>

\* step 1: CRR full mesh, the appends of the double loop in order
MeshAppends(nodes) ==
    LET crr   == role_map(nodes, "crr")
        pairs == CrossSeq(crr, crr)
    IN  Flatten([k \in 1..Len(pairs) |->
            IF pairs[k][1].name # pairs[k][2].name
            THEN << Append_to(pairs[k][1].name,
                              [peer |-> pairs[k][2].loopback,
                               peer_name |-> pairs[k][2].name,
                               peer_role |-> "crr",
                               group |-> "RR-Mesh"]) >>
            ELSE <<>>])

\* the hierarchy with the CCR -> CHR stage of build_bgp_plan_bak2 left in
HierarchyWithCcrChr ==
    << [rr |-> "crr", clients |-> <<"ccr", "chr", "sar">>],
       [rr |-> "ccr", clients |-> <<"chr">>],
       [rr |-> "chr", clients |-> <<"dhr", "dsr", "ahr">>],
       [rr |-> "ahr", clients |-> <<"asr">>] >>

\* the hierarchy with unclassified nodes taken in as clients of the CRRs
HierarchyWithOther ==
    << [rr |-> "crr", clients |-> <<"ccr", "chr", "sar", "other">>],
       [rr |-> "chr", clients |-> <<"dhr", "dsr", "ahr">>],
       [rr |-> "ahr", clients |-> <<"asr">>] >>

\* steps 2-4: the reflector role and the client roles of each loop
Hierarchy ==
    << [rr |-> "crr", clients |-> <<"ccr", "chr", "sar">>],
       [rr |-> "chr", clients |-> <<"dhr", "dsr", "ahr">>],
       [rr |-> "ahr", clients |-> <<"asr">>] >>

\* one of the steps 2-4: for rr in ...: for cl in ...: add_pair(rr, cl, ...)
StageAppends(nodes, stage) ==
    LET pairs == CrossSeq(role_map(nodes, stage.rr),
                          role_map_concat(nodes, stage.clients))
    IN  Flatten([k \in 1..Len(pairs) |->
            add_pair(pairs[k][1], pairs[k][2], "RR-to-Client", "Client-to-RR")])

\* every append of steps 1-4, in execution order
AllAppends(nodes) ==
    MeshAppends(nodes)
    \o Flatten([s \in 1..Len(Hierarchy) |-> StageAppends(nodes, Hierarchy[s])])

\* the names that key the plan dict
PlanKeys(nodes) == {nodes[i].name : i \in DOMAIN nodes}

\* plan[name]["neighbors"] after steps 1-4
NeighborsOf(appends, name) ==
    LET mine == SelectSeq(appends, LAMBDA a : a.owner = name)
    IN  [i \in 1..Len(mine) |-> mine[i].nb]

\* the last node dict of a name (plan[n["name"]] = ... overwrites)
NodeOf(nodes, name) ==
    LET idx == {i \in DOMAIN nodes : nodes[i].name = name}
    IN  nodes[CHOOSE i \in idx : \A j \in idx : j <= i]

\* the plan before the dedup loop
RawPlan(nodes) ==
    LET appends == AllAppends(nodes)
    IN  [name \in PlanKeys(nodes) |->
            [node      |-> NodeOf(nodes, name),
             router_id |-> NodeOf(nodes, name).loopback,
             neighbors |-> NeighborsOf(appends, name)]]

\* key = (nb["peer"], nb["group"])
DedupKey(nb) == <<nb.peer, nb.group>>

\* the dedup loop over one neighbor list, `seen` being the keys met so far
RECURSIVE DedupFrom(_, _)
DedupFrom(nbs, seen) ==
    IF nbs = <<>> THEN <<>>
    ELSE IF DedupKey(Head(nbs)) \in seen
         THEN DedupFrom(Tail(nbs), seen)
         ELSE <<Head(nbs)>> \o DedupFrom(Tail(nbs), seen \cup {DedupKey(Head(nbs))})

\* the plan after the dedup loop
DedupPlan(p) ==
    [name \in DOMAIN p |-> [p[name] EXCEPT !.neighbors = DedupFrom(@, {})]]

\* expectations with the upstream of asr set to chr, as for the other
\* distribution and access roles
expectations_asr_chr ==
    [role \in {"dhr", "dsr", "ahr", "asr", "chr", "ccr", "sar"} |->
        CASE role \in {"dhr", "dsr", "ahr", "asr"} -> "chr"
          [] OTHER                                 -> "crr"]

\* expectations: role -> expected upstream role
expectations ==
    [role \in {"dhr", "dsr", "ahr", "asr", "chr", "ccr", "sar"} |->
        CASE role \in {"dhr", "dsr", "ahr"} -> "chr"
          [] role = "asr"                   -> "ahr"
          [] OTHER                          -> "crr"]

\* has_up of the validation loop
has_up(p, n) ==
    \E i \in DOMAIN p[n.name].neighbors :
        /\ p[n.name].neighbors[i].peer_role = expectations[n.role]
        /\ p[n.name].neighbors[i].group = "Client-to-RR"

\* the warnings the validation loop prints, in nodes_info order
ValidationWarnings(nodes, p) ==
    LET no_up == SelectSeq(nodes,
                     LAMBDA n : n.role \in DOMAIN expectations /\ ~has_up(p, n))
    IN  [i \in 1..Len(no_up) |->
            [kind   |-> "NoUpstream",
             name   |-> no_up[i].name,
             role   |-> no_up[i].role,
             expect |-> expectations[no_up[i].role]]]

---------------------------------------------------------------------------
(* Specification of build_bgp_plan: every short list of nodes as main builds it *)

\* most nodes in nodes_info
MaxNodes == 3

crr1  == <<"c", "r", "r", "1">>
crr2  == <<"c", "r", "r", "2">>
CRR3  == <<"C", "R", "R", "3">>
ccr1  == <<"c", "c", "r", "1">>
chr12 == <<"c", "h", "r", "1", "2">>
chr5  == <<"c", "h", "r", "5">>
sar1  == <<"s", "a", "r", "1">>
dhr12 == <<"d", "h", "r", "1", "2">>
dsr7  == <<"d", "s", "r", "7">>
ahr1  == <<"a", "h", "r", "1">>
asr1  == <<"a", "s", "r", "1">>
ce1   == <<"c", "e", "1">>
x1    == <<"x", "1">>

\* the router names of the lab, in a fixed order that numbers their addresses
BgpNames == <<crr1, crr2, CRR3, ccr1, chr12, chr5, sar1, dhr12, dsr7, ahr1, asr1, ce1, x1>>

\* the Loopback0 address a router has of its own: 1.1.1.k for the k-th name
OwnLoopback(name) == CHOOSE k \in DOMAIN BgpNames : BgpNames[k] = name

\* a Loopback0 address of no router's own, which several routers may have
\* been configured with: 1.1.1.(k+1) for k names
SharedLoopback == Len(BgpNames) + 1

\* lists of distinct names, no longer than MaxNodes
NameLists ==
    {s \in SeqsUpTo(Range(BgpNames), MaxNodes) :
        /\ Len(s) >= 1
        /\ \A i, j \in DOMAIN s : i # j => s[i] # s[j]}

\* nodes_info as main builds it: the role is classify_router(name), every
\* node has a Loopback0 address (main exits otherwise)
MakeNodes(names, shared) ==
    [i \in DOMAIN names |->
        [name     |-> names[i],
         role     |-> classify_router(names[i]),
         loopback |-> IF i \in shared THEN SharedLoopback ELSE OwnLoopback(names[i])]]

InitBgp ==
    /\ b_pc = "ready"
    /\ \E names \in NameLists : \E shared \in SUBSET (DOMAIN names) :
          nodes_info = MakeNodes(names, shared)
    /\ raw_plan = <<>>
    /\ plan = <<>>
    /\ warnings = <<>>
    /\ BgpMainIdle
    /\ ClassifyIdle
    /\ OspfIdle
    /\ ToolsIdle

\* plan = build_bgp_plan(nodes_info, asn)
build_bgp_plan ==
    /\ b_pc = "ready"
    /\ raw_plan' = RawPlan(nodes_info)
    /\ plan' = DedupPlan(raw_plan')
    /\ warnings' = ValidationWarnings(nodes_info, plan')
    /\ b_pc' = "planned"
    /\ UNCHANGED <<nodes_info, plan_again, warnings_again, bgp_main_vars,
                   classify_vars, ospf_vars, tools_vars>>

NextBgp == build_bgp_plan

SpecBgp == InitBgp /\ [][NextBgp]_vars

---------------------------------------------------------------------------
(* Properties of build_bgp_plan *)

Planned == b_pc = "planned"

\* the entries of one node in a plan
Nbrs(p, name) == p[name].neighbors

\* plan p has, on node `owner`, an entry of relation `group` naming `peer`
HasEntry(p, owner, peer, group) ==
    \E i \in DOMAIN Nbrs(p, owner) :
        /\ Nbrs(p, owner)[i].peer_name = peer
        /\ Nbrs(p, owner)[i].group = group

\* the names of the nodes of one role
NamesOfRole(role) == {nodes_info[i].name : i \in {j \in DOMAIN nodes_info : nodes_info[j].role = role}}

\* two nodes of the list have the same Loopback0 address
SomeSharedLoopback ==
    \E i, j \in DOMAIN nodes_info :
        i # j /\ nodes_info[i].loopback = nodes_info[j].loopback

\* C1: mesh completeness. In the returned plan, for every two distinct crr
\* nodes a and b, plan[a] has an RR-Mesh entry naming b (and, a and b being
\* arbitrary, plan[b] one naming a).
Cex_C1_MeshComplete ==
    Planned =>
        \A a, b \in NamesOfRole("crr") :
            a # b => HasEntry(plan, a, b, "RR-Mesh")

\* C2: reflector and client entries come in complementary pairs. In the
\* returned plan, plan[r] has an RR-to-Client entry naming c if and only if
\* plan[c] has a Client-to-RR entry naming r.
Cex_C2_ComplementaryPairs ==
    Planned =>
        \A r, c \in DOMAIN plan :
            HasEntry(plan, r, c, "RR-to-Client") <=> HasEntry(plan, c, r, "Client-to-RR")

\* C3: dedup invariant. In the returned plan no node has two entries with
\* the same peer_name and the same group.
Thm_C3_NoDuplicatePeerAndGroup ==
    Planned =>
        \A n \in DOMAIN plan : \A i, j \in DOMAIN Nbrs(plan, n) :
            (/\ Nbrs(plan, n)[i].peer_name = Nbrs(plan, n)[j].peer_name
             /\ Nbrs(plan, n)[i].group = Nbrs(plan, n)[j].group) => i = j

\* a plan was returned in which some node keeps several entries and the
\* dedup loop has dropped an entry of some node
Wit_C3_DedupActed ==
    /\ Planned
    /\ \E n \in DOMAIN plan : Len(Nbrs(plan, n)) >= 2
    /\ \E n \in DOMAIN plan : Len(Nbrs(plan, n)) < Len(Nbrs(raw_plan, n))

\* a stable dedup on (peer node, relation kind): every later repetition of
\* an already seen (peer_name, group) removed
RECURSIVE StableDedupByPeerNode(_, _)
StableDedupByPeerNode(nbs, seen) ==
    IF nbs = <<>> THEN <<>>
    ELSE IF <<Head(nbs).peer_name, Head(nbs).group>> \in seen
         THEN StableDedupByPeerNode(Tail(nbs), seen)
         ELSE <<Head(nbs)>>
              \o StableDedupByPeerNode(Tail(nbs),
                     seen \cup {<<Head(nbs).peer_name, Head(nbs).group>>})

\* C4: the deduplicated neighbor list of every node is exactly the raw list
\* with every later repetition of an already seen (peer node, relation
\* kind) removed: only such repetitions are collapsed, the first occurrence
\* stays, the order is kept.
Cex_C4_DedupOnPeerNode ==
    Planned =>
        \A n \in DOMAIN plan :
            Nbrs(plan, n) = StableDedupByPeerNode(Nbrs(raw_plan, n), {})

\* the decimal digits
Digit == {"0", "1", "2", "3", "4", "5", "6", "7", "8", "9"}

\* length of the longest prefix of s made of characters that satisfy inS
RECURSIVE RunLength(_, _, _)
RunLength(s, S, digits) ==
    IF s = <<>> \/ ((Head(s) \in S) # digits) THEN 0
    ELSE 1 + RunLength(Tail(s), S, digits)

\* the region a name carries: the digit run that follows its leading
\* alphabetic run, <<>> when there is none
Region(name) ==
    LET a    == RunLength(name, Digit, FALSE)
        rest == SubSeq(name, a + 1, Len(name))
    IN  SubSeq(rest, 1, RunLength(rest, Digit, TRUE))

\* the nodes of the parent (reflector) tier of a client role
ParentTier(role) == NamesOfRole(expectations[role])

\* the clients of the hierarchy that are in the node list
Clients == {nodes_info[i].name : i \in {j \in DOMAIN nodes_info : nodes_info[j].role \in DOMAIN expectations}}

\* the role of a node of the list
RoleOf(name) == NodeOf(nodes_info, name).role

\* C5: region restriction. A client whose name carries a region, and whose
\* parent tier has a node of the same region, has Client-to-RR entries to
\* same-region reflectors only.
Cex_C5_RegionRestriction ==
    Planned =>
        \A c \in Clients :
            (/\ Region(c) # <<>>
             /\ \E r \in ParentTier(RoleOf(c)) : Region(r) = Region(c))
            => \A i \in DOMAIN Nbrs(plan, c) :
                   Nbrs(plan, c)[i].group = "Client-to-RR"
                   => Region(Nbrs(plan, c)[i].peer_name) = Region(c)

\* C6: region fallback. A client whose name carries a region that no node
\* of its (non-empty) parent tier shares is peered with every node of the
\* parent tier, and a RegionFallback is recorded for it.
Cex_C6_RegionFallbackRecorded ==
    Planned =>
        \A c \in Clients :
            (/\ Region(c) # <<>>
             /\ ParentTier(RoleOf(c)) # {}
             /\ \A r \in ParentTier(RoleOf(c)) : Region(r) # Region(c))
            => /\ \A r \in ParentTier(RoleOf(c)) : HasEntry(plan, c, r, "Client-to-RR")
               /\ \E i \in DOMAIN warnings :
                      /\ warnings[i].kind = "RegionFallback"
                      /\ warnings[i].name = c

\* the (owner role, peer role, relation) triples of the allowed hierarchy
AllowedRelations ==
    {<<"crr", "crr", "RR-Mesh">>}
    \cup {<<"crr", c, "RR-to-Client">> : c \in {"ccr", "chr", "sar"}}
    \cup {<<c, "crr", "Client-to-RR">> : c \in {"ccr", "chr", "sar"}}
    \cup {<<"chr", c, "RR-to-Client">> : c \in {"dhr", "dsr", "ahr"}}
    \cup {<<c, "chr", "Client-to-RR">> : c \in {"dhr", "dsr", "ahr"}}
    \cup {<<"ahr", "asr", "RR-to-Client">>, <<"asr", "ahr", "Client-to-RR">>}

\* C7: forbidden tier pairs are never emitted. Every entry of the returned
\* plan joins an owner and a peer whose roles (as their names classify
\* them) are a pair of the allowed hierarchy, with the relation of that
\* pair; the role recorded in the entry is the peer's role.
Thm_C7_OnlyAllowedTierPairs ==
    Planned =>
        \A n \in DOMAIN plan : \A i \in DOMAIN Nbrs(plan, n) :
            /\ <<classify_router(n),
                 classify_router(Nbrs(plan, n)[i].peer_name),
                 Nbrs(plan, n)[i].group>> \in AllowedRelations
            /\ Nbrs(plan, n)[i].peer_role = classify_router(Nbrs(plan, n)[i].peer_name)

\* a plan was returned for a list holding a ccr, a chr and a crr node, and
\* the ccr and the chr node both got their entries to the crr
Wit_C7_CcrAndChrPlanned ==
    /\ Planned
    /\ \E c \in NamesOfRole("ccr") : \E h \in NamesOfRole("chr") :
       \E r \in NamesOfRole("crr") :
          /\ HasEntry(plan, c, r, "Client-to-RR")
          /\ HasEntry(plan, h, r, "Client-to-RR")

---------------------------------------------------------------------------
(* ospf-wizard.py: process allocation and link rules *)

OSPF_AREA_CORE == "0.0.0.0"
OSPF_AREA_DISTRIBUTION == "0.0.0.0"
OSPF_AREA_ACCESS == "0.0.0.0"

\* ospf_processes_for_role
ospf_processes_for_role(role) ==
    IF role \in {"cc", "cr", "sa", "core"} THEN <<1>>
    ELSE IF role = "ch" THEN <<1, 10>>
    ELSE IF role \in {"dh", "ds"} THEN <<10>>
    ELSE IF role = "ah" THEN <<10, 100>>
    ELSE IF role = "as" THEN <<100>>
    ELSE <<>>

\* the code points of the characters of interface labels and of license
\* file names, for string order
CharOrd(ch) ==
    CASE ch = "-" -> 45
      [] ch = "." -> 46
      [] ch = "/" -> 47
      [] ch = "0" -> 48
      [] ch = "1" -> 49
      [] ch = "2" -> 50
      [] ch = "3" -> 51
      [] ch = "4" -> 52
      [] ch = "5" -> 53
      [] ch = "G" -> 71
      [] ch = "L" -> 76
      [] ch = "_" -> 95
      [] ch = "c" -> 99
      [] ch = "f" -> 102
      [] ch = "g" -> 103
      [] ch = "i" -> 105
      [] ch = "l" -> 108
      [] ch = "w" -> 119
      [] OTHER    -> 0

\* s <= t in the order Python's sorted() uses on strings
RECURSIVE StrLeq(_, _)
StrLeq(s, t) ==
    IF s = <<>> THEN TRUE
    ELSE IF t = <<>> THEN FALSE
    ELSE IF Head(s) = Head(t) THEN StrLeq(Tail(s), Tail(t))
    ELSE CharOrd(Head(s)) < CharOrd(Head(t))

\* sorted([i1, i2])[0]
SortedFirst(i1, i2) == IF StrLeq(i1, i2) THEN i1 ELSE i2

\* the suffix "0/0/0/0"
Suffix0000 == <<"0", "/", "0", "/", "0", "/", "0">>

\* f"{name}:{intf}".split(":") gives two parts only without a further colon
SplitsInTwo(n, i) == ":" \notin (Range(n) \cup Range(i))

\* link_to_ospf([f"{n1}:{i1}", f"{n2}:{i2}"]); Raised when the code raises
link_to_ospf(n1, i1, n2, i2) ==
    IF ~SplitsInTwo(n1, i1) \/ ~SplitsInTwo(n2, i2) THEN Raised
    ELSE IF StartsWith(n1, <<"C", "E">>) \/ StartsWith(n2, <<"C", "E">>) THEN None
    ELSE IF n1 = <<>> THEN Raised
    ELSE IF n1[1] \in {"c", "s"} /\ n2 = <<>> THEN Raised
    ELSE IF n1[1] \in {"c", "s"} /\ n2[1] \in {"c", "s"} THEN <<1, OSPF_AREA_CORE>>
    ELSE IF StartsWith(n1, <<"c", "h">>) /\ StartsWith(n2, <<"c", "h">>)
         THEN IF EndsWith(i1, Suffix0000) \/ EndsWith(i2, Suffix0000)
              THEN <<1, OSPF_AREA_CORE>>
              ELSE <<10, OSPF_AREA_DISTRIBUTION>>
    ELSE IF \/ StartsWith(n1, <<"d">>) /\ StartsWith(n2, <<"d">>)
            \/ StartsWith(n1, <<"d">>) /\ StartsWith(n2, <<"a", "h">>)
            \/ StartsWith(n2, <<"d">>) /\ StartsWith(n1, <<"a", "h">>)
         THEN <<10, OSPF_AREA_DISTRIBUTION>>
    ELSE IF \/ StartsWith(n1, <<"a">>) /\ StartsWith(n2, <<"a">>)
            \/ StartsWith(n1, <<"a", "h">>) /\ StartsWith(n2, <<"a">>)
            \/ StartsWith(n2, <<"a">>) /\ StartsWith(n1, <<"a", "h">>)
         THEN <<100, OSPF_AREA_ACCESS>>
    ELSE IF StartsWith(n1, <<"a", "h">>) /\ StartsWith(n2, <<"a", "h">>)
         THEN IF SortedFirst(i1, i2) \in {i1, i2}
              THEN <<10, OSPF_AREA_DISTRIBUTION>>
              ELSE <<100, OSPF_AREA_ACCESS>>
    ELSE IF \/ StartsWith(n1, <<"c">>) /\ StartsWith(n2, <<"d">>)
            \/ StartsWith(n1, <<"d">>) /\ StartsWith(n2, <<"c">>)
         THEN <<10, OSPF_AREA_DISTRIBUTION>>
    ELSE None

---------------------------------------------------------------------------
(* ospf-wizard.py: discovery, preview and push *)

\* get_loopback_ip(conn) on router `name`: the address on Loopback0 as a
\* tuple of octets, None when the running config shows none
get_loopback_ip(name) == loopback0[name]

\* get_loopback_ip(conn) or "1.1.1.1"
rid_or_default(ip) == IF ip = None THEN <<1, 1, 1, 1>> ELSE ip

\* get_lldp_neighbors on router `name`: one (local_intf, neighbor, neighbor_intf)
\* per link that ends on the router, in the order the device lists them
get_lldp_neighbors(name) ==
    LET mine == SelectSeq(links, LAMBDA l : l.a = name \/ l.b = name)
    IN  [k \in 1..Len(mine) |->
            IF mine[k].a = name
            THEN [local_intf |-> mine[k].ia, neigh |-> mine[k].b, neigh_intf |-> mine[k].ib]
            ELSE [local_intf |-> mine[k].ib, neigh |-> mine[k].a, neigh_intf |-> mine[k].ia]]

\* roles.append(get_router_role(name)) for every router
roles == [k \in DOMAIN routers |-> get_router_role(routers[k])]

\* "sub in s"
Contains(s, sub) ==
    \E k \in 1..(Len(s) - Len(sub) + 1) : SubSeq(s, k, k + Len(sub) - 1) = sub

\* link_count_tracker.get(pair_key, 0)
TrackerCount(tracker, pair_key) ==
    IF pair_key \in DOMAIN tracker THEN tracker[pair_key] ELSE 0

\* a call of link_to_ospf with the dual-link counter of link_to_ospf_bak2
\* ahead of its rules: the ahrb-ahrg pair is counted in link_count_tracker,
\* its first link gets process 10 and every later one process 100
link_to_ospf_bak2_call(tracker, n1, i1, n2, i2) ==
    IF /\ ~(StartsWith(n1, <<"C", "E">>) \/ StartsWith(n2, <<"C", "E">>))
       /\ \/ Contains(n1, <<"a", "h", "r", "b">>) /\ Contains(n2, <<"a", "h", "r", "g">>)
          \/ Contains(n2, <<"a", "h", "r", "b">>) /\ Contains(n1, <<"a", "h", "r", "g">>)
    THEN [ret     |-> IF TrackerCount(tracker, {n1, n2}) = 0
                      THEN <<10, OSPF_AREA_DISTRIBUTION>>
                      ELSE <<100, OSPF_AREA_ACCESS>>,
          tracker |-> ({n1, n2} :> (TrackerCount(tracker, {n1, n2}) + 1)) @@ tracker]
    ELSE [ret |-> link_to_ospf(n1, i1, n2, i2), tracker |-> tracker]

\* a call of link_to_ospf in a process whose link_count_tracker holds
\* `tracker`: what the call returns and what link_count_tracker holds after
\* it (link_to_ospf neither reads nor writes the dict)
link_to_ospf_call(tracker, n1, i1, n2, i2) ==
    [ret |-> link_to_ospf(n1, i1, n2, i2), tracker |-> tracker]

\* the (pid, area) one loop iteration over neighbors decides on, None to skip
\* the neighbor; `fallback` is (enforce_fallback or force_all)
AssignLink(name, nb, fallback, tracker) ==
    IF fallback THEN [ret |-> <<1, OSPF_AREA_CORE>>, tracker |-> tracker]
    ELSE link_to_ospf_call(tracker, name, nb.local_intf, nb.neigh, nb.neigh_intf)

\* the loop over `nbs`: the neighbors it keeps, each with its (pid, area),
\* and link_count_tracker after the loop
RECURSIVE AssignedLinks(_, _, _, _)
AssignedLinks(name, nbs, fallback, tracker) ==
    IF nbs = <<>> THEN [links |-> <<>>, tracker |-> tracker]
    ELSE LET call == AssignLink(name, Head(nbs), fallback, tracker)
             rest == AssignedLinks(name, Tail(nbs), fallback, call.tracker)
         IN  [links   |-> (IF call.ret = None THEN <<>>
                           ELSE << [intf       |-> Head(nbs).local_intf,
                                    pid        |-> call.ret[1],
                                    area       |-> call.ret[2],
                                    neigh      |-> Head(nbs).neigh,
                                    neigh_intf |-> Head(nbs).neigh_intf] >>)
                          \o rest.links,
              tracker |-> rest.tracker]

\* the preview entry main builds for one router
PreviewEntry(name, rid, nbs, fallback, tracker) ==
    [role      |-> get_router_role(name),
     rid       |-> rid,
     processes |-> IF fallback THEN <<1>>
                   ELSE ospf_processes_for_role(get_router_role(name)),
     loopback0 |-> "passive in all",
     links     |-> AssignedLinks(name, nbs, fallback, tracker).links]

\* what the router holds when configure_ospf returned without sending
NotConfigured == [processes |-> <<>>, links |-> <<>>]

\* configure_ospf: cfg_lines as sent (the process stanzas, then one interface
\* stanza per kept neighbor) and link_count_tracker after the call
configure_ospf(name, role, router_id, nbs, fallback, tracker) ==
    LET processes == IF fallback THEN <<1>> ELSE ospf_processes_for_role(role)
        assigned  == AssignedLinks(name, nbs, fallback, tracker)
    IN  IF processes = <<>> THEN [sent |-> NotConfigured, tracker |-> tracker]
        ELSE [sent    |-> [processes |-> [k \in DOMAIN processes |->
                                            [pid       |-> processes[k],
                                             router_id |-> router_id,
                                             passive   |-> "Loopback0"]],
                           links     |-> [k \in DOMAIN assigned.links |->
                                            [pid  |-> assigned.links[k].pid,
                                             area |-> assigned.links[k].area,
                                             intf |-> assigned.links[k].intf]]],
              tracker |-> assigned.tracker]

---------------------------------------------------------------------------
(* Specification of ospf-wizard's main: small labs, every mode *)

\* most routers in the lab
MaxRouters == 2
\* most physical links in the lab
MaxLinks == 2

ahrg1 == <<"a", "h", "r", "g", "1">>
ahrb1 == <<"a", "h", "r", "b", "1">>
CE1   == <<"C", "E", "1">>
xr1   == <<"x", "r", "1">>
ch1   == <<"c", "h", "1">>
ch2   == <<"c", "h", "2">>
c1    == <<"c", "1">>
d1    == <<"d", "1">>

\* the device names of the lab
OspfNames == {ahrg1, ahrb1, CE1, xr1}

\* the Loopback0 address a configured device has: 1.1.1.1, 1.1.1.2, ...
OspfAddr(name) ==
    CASE name = ahrg1 -> <<1, 1, 1, 1>>
      [] name = ahrb1 -> <<1, 1, 1, 2>>
      [] name = CE1   -> <<1, 1, 1, 3>>
      [] name = ch1   -> <<1, 1, 1, 5>>
      [] name = ch2   -> <<1, 1, 1, 6>>
      [] name = c1    -> <<1, 1, 1, 7>>
      [] name = d1    -> <<1, 1, 1, 8>>
      [] OTHER        -> <<1, 1, 1, 4>>

Gi0 == <<"G", "i", "0", "/", "0", "/", "0", "/", "0">>
Gi1 == <<"G", "i", "0", "/", "0", "/", "0", "/", "1">>

\* the interface labels of a device
Intfs == {Gi0, Gi1}

\* lists of distinct router names as containerlab inspect reports them
RouterLists ==
    {s \in SeqsUpTo(OspfNames, MaxRouters) :
        /\ Len(s) >= 1
        /\ \A i, j \in DOMAIN s : i # j => s[i] # s[j]}

\* position of a name in the router list, 0 when it is not an XRd router
PosIn(rs, name) ==
    IF \E k \in DOMAIN rs : rs[k] = name
    THEN CHOOSE k \in DOMAIN rs : rs[k] = name
    ELSE 0

\* a link from interface ia of router a to interface ib of device b; a link
\* between two routers of the list is written from the earlier router
LinksOf(rs) ==
    {l \in [a : Range(rs), ia : Intfs, b : OspfNames, ib : Intfs] :
        /\ l.a # l.b
        /\ PosIn(rs, l.b) # 0 => PosIn(rs, l.a) < PosIn(rs, l.b)}

\* the (device, interface) ends of a link
Ends(l) == {<<l.a, l.ia>>, <<l.b, l.ib>>}

\* link lists in which an interface of a device ends at most one link
LinkLists(rs) ==
    {ls \in SeqsUpTo(LinksOf(rs), MaxLinks) :
        \A i, j \in DOMAIN ls : i # j => Ends(ls[i]) \cap Ends(ls[j]) = {}}

\* main about to ask for the mode: nothing previewed, pushed or answered
OspfMainStart ==
    /\ o_pc = "mode"
    /\ enforce_fallback = FALSE
    /\ force_all = FALSE
    /\ o_idx = 0
    /\ preview = <<>>
    /\ pushed = <<>>
    /\ link_count_tracker = <<>>
    /\ o_confirm = NoResult

\* a lab that stands still while main runs, every router with its Loopback0
InitOspf ==
    /\ OspfMainStart
    /\ routers \in RouterLists
    /\ links \in LinkLists(routers)
    /\ loopback0 = [r \in Range(routers) |-> OspfAddr(r)]
    /\ ClassifyIdle
    /\ BgpIdle
    /\ ToolsIdle

\* main, lines 505-530: the mode prompt and, in mode a with no known role,
\* the automatic fallback prompt
ChooseMode ==
    /\ o_pc = "mode"
    /\ \E mode \in {"a", "b"} : \E answer \in {"y", "n"} :
          /\ enforce_fallback' = (mode = "b")
          /\ force_all' = (/\ mode # "b"
                           /\ \A k \in DOMAIN roles : roles[k] = "other"
                           /\ answer = "y")
    /\ o_pc' = "preview"
    /\ o_idx' = 1
    /\ UNCHANGED <<routers, links, preview, pushed, loopback0, link_count_tracker,
                   o_confirm, classify_vars, bgp_vars, tools_vars>>

\* main, lines 539-574: one iteration of the preview loop
PreviewRouter ==
    /\ o_pc = "preview"
    /\ o_idx <= Len(routers)
    /\ LET name      == routers[o_idx]
           rid       == rid_or_default(get_loopback_ip(name))
           neighbors == get_lldp_neighbors(name)
           fallback  == enforce_fallback \/ force_all
       IN  /\ preview' = [n \in DOMAIN preview \cup {name} |->
                             IF n = name
                             THEN PreviewEntry(name, rid, neighbors, fallback,
                                               link_count_tracker)
                             ELSE preview[n]]
           /\ link_count_tracker' =
                 AssignedLinks(name, neighbors, fallback, link_count_tracker).tracker
    /\ o_idx' = o_idx + 1
    /\ UNCHANGED <<o_pc, enforce_fallback, force_all, routers, links, pushed, loopback0,
                   o_confirm, classify_vars, bgp_vars, tools_vars>>

\* main, lines 576-584: the preview is printed and the user is asked
Confirm ==
    /\ o_pc = "preview"
    /\ o_idx > Len(routers)
    /\ \E confirm \in {"y", "n"} :
          /\ o_confirm' = confirm
          /\ o_pc' = IF confirm = "y" THEN "apply" ELSE "aborted"
    /\ o_idx' = 1
    /\ UNCHANGED <<enforce_fallback, force_all, routers, links, preview, pushed,
                   loopback0, link_count_tracker, classify_vars, bgp_vars, tools_vars>>

\* main, lines 587-600: one iteration of the apply loop
ApplyRouter ==
    /\ o_pc = "apply"
    /\ o_idx <= Len(routers)
    /\ LET name == routers[o_idx]
           rid  == rid_or_default(get_loopback_ip(name))
           call == configure_ospf(name, roles[o_idx], rid, get_lldp_neighbors(name),
                                  enforce_fallback \/ force_all, link_count_tracker)
       IN  /\ pushed' = [n \in DOMAIN pushed \cup {name} |->
                            IF n = name THEN call.sent ELSE pushed[n]]
           /\ link_count_tracker' = call.tracker
    /\ o_idx' = o_idx + 1
    /\ UNCHANGED <<o_pc, enforce_fallback, force_all, routers, links, preview, loopback0,
                   o_confirm, classify_vars, bgp_vars, tools_vars>>

\* main, line 602
Finish ==
    /\ o_pc = "apply"
    /\ o_idx > Len(routers)
    /\ o_pc' = "done"
    /\ UNCHANGED <<enforce_fallback, force_all, routers, links, o_idx, preview, pushed,
                   loopback0, link_count_tracker, o_confirm, classify_vars, bgp_vars, tools_vars>>

NextOspf ==
    \/ ChooseMode
    \/ PreviewRouter
    \/ Confirm
    \/ ApplyRouter
    \/ Finish

SpecOspf == InitOspf /\ [][NextOspf]_vars

---------------------------------------------------------------------------
(* Specification of ospf-wizard's main in a lab that changes while it runs *)

\* the device names of the changing lab
LabNames == {ahrg1, ahrb1}

\* main has made its first discovery and not yet ended
MainRunning == o_pc \in {"preview", "apply"}

\* a link of the lab goes down: LLDP no longer lists it on either end
LinkGoesDown ==
    /\ MainRunning
    /\ \E k \in DOMAIN links :
          links' = SubSeq(links, 1, k - 1) \o SubSeq(links, k + 1, Len(links))
    /\ UNCHANGED <<o_pc, enforce_fallback, force_all, routers, o_idx, preview, pushed,
                   loopback0, link_count_tracker, o_confirm, classify_vars, bgp_vars, tools_vars>>

\* an operator configures Loopback0 on a router that had none
LoopbackConfigured ==
    /\ MainRunning
    /\ \E r \in DOMAIN loopback0 :
          /\ loopback0[r] = None
          /\ loopback0' = [loopback0 EXCEPT ![r] = OspfAddr(r)]
    /\ UNCHANGED <<o_pc, enforce_fallback, force_all, routers, links, o_idx, preview,
                   pushed, link_count_tracker, o_confirm, classify_vars, bgp_vars, tools_vars>>

\* a lab of LabNames devices, each router with or without a Loopback0 address
InitOspfLab ==
    /\ OspfMainStart
    /\ routers \in {rs \in RouterLists : Range(rs) \subseteq LabNames}
    /\ links \in {ls \in LinkLists(routers) : \A k \in DOMAIN ls : ls[k].b \in LabNames}
    /\ loopback0 \in [Range(routers) -> {OspfAddr(n) : n \in LabNames} \cup {None}]
    /\ \A r \in Range(routers) : loopback0[r] \in {OspfAddr(r), None}
    /\ ClassifyIdle
    /\ BgpIdle
    /\ ToolsIdle

NextOspfLab ==
    \/ NextOspf
    \/ LinkGoesDown
    \/ LoopbackConfigured

SpecOspfLab == InitOspfLab /\ [][NextOspfLab]_vars

---------------------------------------------------------------------------
(* Specification of ospf-wizard's main in a lab of core and distribution routers *)

\* the device names of the core and distribution lab
TierNames == {ch1, ch2, c1, d1}

\* lists of distinct router names of the core and distribution lab
TierRouterLists ==
    {s \in SeqsUpTo(TierNames, MaxRouters) :
        /\ Len(s) >= 1
        /\ \A i, j \in DOMAIN s : i # j => s[i] # s[j]}

\* the links of the lab, each written from a router of the list; a link
\* between two routers of the list is written from the earlier router
TierLinksOf(rs) ==
    {l \in [a : Range(rs), ia : Intfs, b : TierNames, ib : Intfs] :
        /\ l.a # l.b
        /\ PosIn(rs, l.b) # 0 => PosIn(rs, l.a) < PosIn(rs, l.b)}

\* link lists in which an interface of a device ends at most one link
TierLinkLists(rs) ==
    {ls \in SeqsUpTo(TierLinksOf(rs), MaxLinks) :
        \A i, j \in DOMAIN ls : i # j => Ends(ls[i]) \cap Ends(ls[j]) = {}}

\* a lab that stands still while main runs, every router with its Loopback0
InitOspfTiers ==
    /\ OspfMainStart
    /\ routers \in TierRouterLists
    /\ links \in TierLinkLists(routers)
    /\ loopback0 = [r \in Range(routers) |-> OspfAddr(r)]
    /\ ClassifyIdle
    /\ BgpIdle
    /\ ToolsIdle

SpecOspfTiers == InitOspfTiers /\ [][NextOspf]_vars

---------------------------------------------------------------------------
(* Properties of ospf-wizard's link assignment *)

\* the device at the far end of interface `intf` of router `name`
NeighOn(name, intf) ==
    LET nbs == get_lldp_neighbors(name)
    IN  nbs[CHOOSE k \in DOMAIN nbs : nbs[k].local_intf = intf].neigh

\* the previewed assignments of router r's links to device n, in observation order
PreviewedTo(r, n) == SelectSeq(preview[r].links, LAMBDA e : e.neigh = n)

\* the pushed interface stanzas of router r's links to device n, in observation order
PushedTo(r, n) == SelectSeq(pushed[r].links, LAMBDA st : NeighOn(r, st.intf) = n)

\* first link process 10 / distribution area, second link process 100 / access area
Alternates(assigned) ==
    /\ assigned[1].pid = 10
    /\ assigned[1].area = OSPF_AREA_DISTRIBUTION
    /\ assigned[2].pid = 100
    /\ assigned[2].area = OSPF_AREA_ACCESS

\* C8: parallel-link alternation. In rule-based mode, whenever two ah
\* routers are joined by two parallel links, each end's preview and each
\* end's pushed configuration give the first observed link of the pair
\* process 10 / distribution area and the second process 100 / access area.
Cex_C8_ParallelLinksAlternate ==
    \A r \in Range(routers) : \A n \in OspfNames :
        (/\ ~(enforce_fallback \/ force_all)
         /\ get_router_role(r) = "ah"
         /\ get_router_role(n) = "ah") =>
            /\ (r \in DOMAIN preview /\ Len(PreviewedTo(r, n)) >= 2)
                  => Alternates(PreviewedTo(r, n))
            /\ (r \in DOMAIN pushed /\ Len(PushedTo(r, n)) >= 2)
                  => Alternates(PushedTo(r, n))

\* C9: customer-edge links are always excluded. In every mode, no link whose
\* local or remote router has role ce is given a process/area, neither in
\* the preview nor in the configuration pushed.
Cex_C9_CeLinksExcluded ==
    /\ \A r \in DOMAIN preview : \A k \in DOMAIN preview[r].links :
          /\ get_router_role(r) # "ce"
          /\ get_router_role(preview[r].links[k].neigh) # "ce"
    /\ \A r \in DOMAIN pushed : \A k \in DOMAIN pushed[r].links :
          /\ get_router_role(r) # "ce"
          /\ get_router_role(NeighOn(r, pushed[r].links[k].intf)) # "ce"

---------------------------------------------------------------------------
(* Properties of the classifiers: the customer-edge rule and rule order *)

\* the name starts with the letters c, e in any letter case
HasCeMarker(name) == StartsWith(Lower(name), <<"c", "e">>)

\* C11: the customer-edge rule is case-insensitive in every classifier. A
\* name whose first two letters are "ce" in any letter case is classified
\* ce by classify_router and by get_router_role, and link_to_ospf treats a
\* link of a router of that name as a CE link (returns None), whichever end
\* of the link the router is.
Cex_C11_CeRuleCaseInsensitive ==
    HasCeMarker(c_name) =>
        /\ c_bgp # NoResult => c_bgp = "ce"
        /\ c_ospf # NoResult =>
              /\ c_ospf = "ce"
              /\ link_to_ospf(c_name, Gi0, ahrg1, Gi1) = None
              /\ link_to_ospf(ahrg1, Gi1, c_name, Gi0) = None

\* the hierarchy tags of bgp-wizard, each the name of its role
BgpTags ==
    {<<"c", "r", "r">>, <<"c", "c", "r">>, <<"c", "h", "r">>, <<"s", "a", "r">>,
     <<"d", "h", "r">>, <<"d", "s", "r">>, <<"a", "h", "r">>, <<"a", "s", "r">>}

\* the hierarchy tags of ospf-wizard, each the name of its role
OspfTags ==
    {<<"c", "h">>, <<"c", "c">>, <<"c", "r">>, <<"s", "a">>,
     <<"d", "h">>, <<"d", "s">>, <<"a", "h">>, <<"a", "s">>}

\* a tag as the role string it stands for: "crr" for <<"c", "r", "r">>
TagRole(tag) ==
    IF Len(tag) = 2 THEN tag[1] \o tag[2] ELSE tag[1] \o tag[2] \o tag[3]

\* C12: role resolution is first-match-wins. A name the CE rule of a
\* classifier matches gets role ce; otherwise a name that starts with a
\* hierarchy tag (whatever single-letter rule it also satisfies) gets the
\* role of the tag, never a generic core / distribution / d role; a generic role
\* is given only to a name no earlier rule matches.
Thm_C12_FirstMatchWins ==
    /\ c_bgp # NoResult =>
          LET p == Lower(c_name) IN
          /\ StartsWith(p, <<"c", "e">>) => c_bgp = "ce"
          /\ \A tag \in BgpTags :
                StartsWith(p, tag) =>
                    /\ c_bgp = TagRole(tag)
                    /\ c_bgp \notin {"core", "distribution"}
          /\ c_bgp \in {"core", "distribution"} =>
                /\ ~StartsWith(p, <<"c", "e">>)
                /\ \A tag \in BgpTags : ~StartsWith(p, tag)
    /\ c_ospf # NoResult =>
          /\ StartsWith(c_name, <<"C", "E">>) => c_ospf = "ce"
          /\ \A tag \in OspfTags :
                StartsWith(c_name, tag) =>
                    /\ c_ospf = TagRole(tag)
                    /\ c_ospf \notin {"core", "d"}
          /\ c_ospf \in {"core", "d"} =>
                /\ ~StartsWith(c_name, <<"C", "E">>)
                /\ \A tag \in OspfTags : ~StartsWith(c_name, tag)

\* a name that starts with the tag crr, and so with the generic letter c,
\* has been classified by both classifiers
Wit_C12_TagBeatsGenericLetter ==
    /\ c_name = <<"c", "r", "r">>
    /\ c_bgp = "crr"
    /\ c_ospf = "cr"

---------------------------------------------------------------------------
(* Properties of build_bgp_plan: validation warnings and unclassified nodes *)

\* the upstream role each client role is expected to have
UpstreamOf ==
    ("dhr" :> "chr") @@ ("dsr" :> "chr") @@ ("ahr" :> "chr") @@ ("asr" :> "ahr")
    @@ ("chr" :> "crr") @@ ("ccr" :> "crr") @@ ("sar" :> "crr")

\* plan p has, on node `owner`, a Client-to-RR entry whose peer has role `role`
HasUpstreamOfRole(p, owner, role) ==
    \E k \in DOMAIN Nbrs(p, owner) :
        /\ Nbrs(p, owner)[k].group = "Client-to-RR"
        /\ classify_router(Nbrs(p, owner)[k].peer_name) = role

\* the positions of the warnings emitted for node `name`
WarningsFor(name) == {k \in DOMAIN warnings : warnings[k].name = name}

\* C14: validation warning exactness. An upstream warning is emitted for
\* node n if and only if n's role has an expected upstream role and the
\* final plan[n].neighbors has no Client-to-RR entry whose peer has that
\* role; the warning names n's role and the expected role and is emitted
\* once; the plan returned is the deduplicated plan, with an entry for
\* every node, whatever warnings were emitted.
Thm_C14_WarningExactness ==
    Planned =>
        /\ \A i \in DOMAIN nodes_info :
              LET n == nodes_info[i] IN
              /\ (WarningsFor(n.name) # {}) <=>
                    (/\ n.role \in DOMAIN UpstreamOf
                     /\ ~HasUpstreamOfRole(plan, n.name, UpstreamOf[n.role]))
              /\ Cardinality(WarningsFor(n.name)) <= 1
              /\ \A k \in WarningsFor(n.name) :
                    /\ warnings[k].role = n.role
                    /\ warnings[k].expect = UpstreamOf[n.role]
        /\ \A k \in DOMAIN warnings : warnings[k].name \in PlanKeys(nodes_info)
        /\ DOMAIN plan = PlanKeys(nodes_info)
        /\ \A n \in DOMAIN plan : Nbrs(plan, n) = DedupFrom(Nbrs(raw_plan, n), {})

\* a plan was returned together with a warning for one client, while
\* another client of the list has its upstream and no warning
Wit_C14_WarnedAndUnwarned ==
    /\ Planned
    /\ warnings # <<>>
    /\ \E i \in DOMAIN nodes_info :
          /\ nodes_info[i].role \in DOMAIN UpstreamOf
          /\ WarningsFor(nodes_info[i].name) = {}
    /\ \E n \in DOMAIN plan : Nbrs(plan, n) # <<>>

\* C15: unclassified nodes never take part in the hierarchy. In the
\* returned plan a node whose name matches no rule (role other) has an
\* empty neighbor list and no entry of any node names it as peer.
Thm_C15_OtherOutsideHierarchy ==
    Planned =>
        \A n \in DOMAIN plan :
            classify_router(n) = "other" =>
                /\ Nbrs(plan, n) = <<>>
                /\ \A m \in DOMAIN plan : \A k \in DOMAIN Nbrs(plan, m) :
                      /\ Nbrs(plan, m)[k].peer_name # n
                      /\ Nbrs(plan, m)[k].peer_role # "other"

\* a plan was returned for a list with an unclassified node, a CRR and a
\* client of the CRR, the latter two peering
Wit_C15_OtherBesideHierarchy ==
    /\ Planned
    /\ \E n \in DOMAIN plan : classify_router(n) = "other"
    /\ \E r \in NamesOfRole("crr") : \E c \in DOMAIN plan :
          HasEntry(plan, c, r, "Client-to-RR")

\* C23: reflector-client completeness of the hierarchy. In the returned
\* plan, for every crr r and every ccr, chr or sar c, every chr r and every
\* dhr, dsr or ahr c, and every ahr r and every asr c: plan[r] has an
\* RR-to-Client entry naming c and plan[c] has a Client-to-RR entry naming r.
Cex_C23_ReflectorClientComplete ==
    Planned =>
        \A r, c \in DOMAIN plan :
            <<RoleOf(r), RoleOf(c), "RR-to-Client">> \in AllowedRelations =>
                /\ HasEntry(plan, r, c, "RR-to-Client")
                /\ HasEntry(plan, c, r, "Client-to-RR")

---------------------------------------------------------------------------
(* bgp-wizard.py: main, from the node collection to the push *)

\* the value None of get_loopback0_ip and of node["loopback"], among
\* addresses numbered from 1
NoLoopback == 0

\* get_loopback0_ip(node["host"]): the address on the device's Loopback0,
\* None when the device shows none
get_loopback0_ip(name) ==
    nodes_raw[CHOOSE i \in DOMAIN nodes_raw : nodes_raw[i].name = name].loopback0

\* missing = [n for n in nodes_info if not n["loopback"]], only the first
\* node looked at
missing_first_only(nodes) ==
    SelectSeq(SubSeq(nodes, 1, 1), LAMBDA n : n.loopback = NoLoopback)

\* missing = [n for n in nodes_info if not n["loopback"]]
missing_of(nodes) == SelectSeq(nodes, LAMBDA n : n.loopback = NoLoopback)

\* the names of a list of node dicts, in order
NamesIn(nodes) == [i \in DOMAIN nodes |-> nodes[i].name]

\* main, lines 757-776: the include_ce prompt and the base node info
CollectNodes ==
    /\ b_pc = "collect"
    /\ \E include_ce \in BOOLEAN :
          LET kept == SelectSeq(nodes_raw,
                        LAMBDA n : ~(classify_router(n.name) = "ce" /\ ~include_ce))
          IN  /\ nodes_info' = [i \in DOMAIN kept |->
                                   [name     |-> kept[i].name,
                                    role     |-> classify_router(kept[i].name),
                                    loopback |-> NoLoopback]]
              /\ b_pc' = IF kept = <<>> THEN "returned" ELSE "loopbacks"
    /\ UNCHANGED <<raw_plan, plan, warnings, plan_again, warnings_again, bgp_main_vars,
                   classify_vars, ospf_vars, tools_vars>>

\* main, lines 778-792: pull the Loopback0s, report and exit when one is missing
CollectLoopbacks ==
    /\ b_pc = "loopbacks"
    /\ nodes_info' = [i \in DOMAIN nodes_info |->
                         [nodes_info[i] EXCEPT !.loopback = get_loopback0_ip(nodes_info[i].name)]]
    /\ missing' = NamesIn(missing_of(nodes_info'))
    /\ b_pc' = IF missing_of(nodes_info') # <<>> THEN "exit" ELSE "ready"
    /\ UNCHANGED <<raw_plan, plan, warnings, plan_again, warnings_again, nodes_raw,
                   b_exported, b_confirm, b_pushed, b_configs, classify_vars, ospf_vars, tools_vars>>

\* a neighbor-group stanza as add_group writes it
add_group(name, rrclient, nhself) == [name |-> name, rrclient |-> rrclient, nhself |-> nhself]

\* the neighbor-group stanzas generate_config_lines writes for a role
GroupsOfRole(role) ==
    IF role = "crr"
    THEN << add_group("CRR-to-CRR", FALSE, FALSE),
            add_group("CRR-to-C-Clients", TRUE, TRUE) >>
    ELSE IF role \in {"ccr", "sar"}
    THEN << add_group("CCR_SAR-to-CRR", FALSE, TRUE) >>
    ELSE IF role = "chr"
    THEN << add_group("CHR-to-D-Clients", TRUE, TRUE),
            add_group("CHR-to-CRR", FALSE, TRUE) >>
    ELSE IF role \in {"dhr", "dsr"}
    THEN << add_group("DHR_DSR-to-CHR", FALSE, TRUE) >>
    ELSE IF role = "ahr"
    THEN << add_group("AHR-to-A-Clients", TRUE, TRUE),
            add_group("AHR-to-CHR", FALSE, TRUE) >>
    ELSE IF role = "asr"
    THEN << add_group("ASR-to-AHR", FALSE, TRUE) >>
    ELSE <<>>

\* group_for with the chr branch looking for the dhr clients only
group_for_dhr_only(local, peer_role, rel_group) ==
    IF local = "crr"
    THEN (IF peer_role = "crr" THEN "CRR-to-CRR" ELSE "CRR-to-C-Clients")
    ELSE IF local \in {"ccr", "sar"} THEN "CCR_SAR-to-CRR"
    ELSE IF local = "chr"
    THEN (IF peer_role = "dhr" THEN "CHR-to-D-Clients" ELSE "CHR-to-CRR")
    ELSE IF local \in {"dhr", "dsr"} THEN "DHR_DSR-to-CHR"
    ELSE IF local = "ahr"
    THEN (IF peer_role = "asr" THEN "AHR-to-A-Clients" ELSE "AHR-to-CHR")
    ELSE IF local = "asr" THEN "ASR-to-AHR"
    ELSE "UNKNOWN"

\* group_for(local, peer_role, rel_group)
group_for(local, peer_role, rel_group) ==
    IF local = "crr"
    THEN (IF peer_role = "crr" THEN "CRR-to-CRR" ELSE "CRR-to-C-Clients")
    ELSE IF local \in {"ccr", "sar"} THEN "CCR_SAR-to-CRR"
    ELSE IF local = "chr"
    THEN (IF rel_group = "RR-to-Client" THEN "CHR-to-D-Clients" ELSE "CHR-to-CRR")
    ELSE IF local \in {"dhr", "dsr"} THEN "DHR_DSR-to-CHR"
    ELSE IF local = "ahr"
    THEN (IF peer_role = "asr" THEN "AHR-to-A-Clients" ELSE "AHR-to-CHR")
    ELSE IF local = "asr" THEN "ASR-to-AHR"
    ELSE "UNKNOWN"

\* generate_config_lines(entry): the router-id of the base config, the
\* neighbor-group stanzas and one neighbor stanza per plan neighbor, in order
generate_config_lines(entry) ==
    [router_id |-> entry.router_id,
     groups    |-> GroupsOfRole(entry.node.role),
     neighbors |-> [k \in DOMAIN entry.neighbors |->
                      [neighbor    |-> entry.neighbors[k].peer,
                       use_group   |-> group_for(entry.node.role,
                                                 entry.neighbors[k].peer_role,
                                                 entry.neighbors[k].group),
                       description |-> entry.neighbors[k].peer_name]]]

\* generate_config_lines(entry) for name, entry in plan.items()
PlanConfigs == [name \in DOMAIN plan |-> generate_config_lines(plan[name])]

\* for name, entry in plan.items(): the names in insertion order
PlanItems == NamesIn(nodes_info)

\* main, lines 797-815: the summary is printed, then the export prompt
ExportPrompt ==
    /\ b_pc = "planned"
    /\ \E answer \in {"y", "n"} :
          /\ b_exported' = IF answer = "y" THEN PlanItems ELSE <<>>
          /\ b_configs' = IF answer = "y" THEN PlanConfigs ELSE <<>>
    /\ b_pc' = "push_prompt"
    /\ UNCHANGED <<nodes_info, raw_plan, plan, warnings, plan_again, warnings_again,
                   nodes_raw, missing, b_confirm, b_pushed, classify_vars, ospf_vars, tools_vars>>

\* the push prompt's test left out: every answer pushes
push_accepted_always(answer) == answer = answer

\* the push prompt's test: input(...).strip().lower() == "y", on the answer
\* as stripped and lower-cased
push_accepted(answer) == answer = "y"

\* main, lines 818-825: the push prompt and the push loop
PushPrompt ==
    /\ b_pc = "push_prompt"
    /\ \E answer \in {"y", "n"} :
          /\ b_confirm' = answer
          /\ b_pushed' = IF push_accepted(answer) THEN PlanItems ELSE <<>>
          /\ b_configs' = IF push_accepted(answer) THEN PlanConfigs ELSE b_configs
    /\ b_pc' = "done"
    /\ UNCHANGED <<nodes_info, raw_plan, plan, warnings, plan_again, warnings_again,
                   nodes_raw, missing, b_exported, classify_vars, ospf_vars, tools_vars>>

\* the XRd nodes of the lab main is run in
MainNames == {crr1, sar1, ce1, x1}

\* what a device may show on Loopback0: its own address, an address another
\* router was given as well, or nothing
Loopback0s(name) == {OwnLoopback(name), SharedLoopback, NoLoopback}

\* the labs: distinct names, each device with one of its Loopback0 states
Labs ==
    UNION {{[i \in DOMAIN names |-> [name |-> names[i], loopback0 |-> lo[i]]] :
               lo \in {f \in [DOMAIN names -> {OwnLoopback(n) : n \in MainNames}
                                               \cup {SharedLoopback, NoLoopback}] :
                          \A i \in DOMAIN names : f[i] \in Loopback0s(names[i])}} :
           names \in {s \in NameLists : Range(s) \subseteq MainNames}}

InitBgpMain ==
    /\ b_pc = "collect"
    /\ nodes_raw \in Labs
    /\ nodes_info = <<>>
    /\ raw_plan = <<>>
    /\ plan = <<>>
    /\ warnings = <<>>
    /\ missing = <<>>
    /\ b_exported = <<>>
    /\ b_confirm = NoResult
    /\ b_pushed = <<>>
    /\ b_configs = <<>>
    /\ plan_again = <<>>
    /\ warnings_again = <<>>
    /\ ClassifyIdle
    /\ OspfIdle
    /\ ToolsIdle

NextBgpMain ==
    \/ CollectNodes
    \/ CollectLoopbacks
    \/ build_bgp_plan
    \/ ExportPrompt
    \/ PushPrompt

SpecBgpMain == InitBgpMain /\ [][NextBgpMain]_vars

\* build_bgp_plan has been called
PlanBuilt == b_pc \in {"planned", "push_prompt", "done"}

\* C16: a missing address is surfaced before planning. If a node selected
\* for the plan shows no Loopback0 address, main reports exactly the
\* affected nodes and ends without having called build_bgp_plan;
\* build_bgp_plan is called only with an address on every node, and no
\* plan entry carries an empty router-id or peer address.
Thm_C16_MissingAddressBeforePlan ==
    /\ b_pc \notin {"collect", "loopbacks"} =>
          ((\E i \in DOMAIN nodes_info : get_loopback0_ip(nodes_info[i].name) = NoLoopback)
              <=> b_pc = "exit")
    /\ b_pc = "exit" =>
          /\ missing # <<>>
          /\ Range(missing) = {nodes_info[i].name : i \in
                                  {j \in DOMAIN nodes_info :
                                      get_loopback0_ip(nodes_info[j].name) = NoLoopback}}
          /\ raw_plan = <<>> /\ plan = <<>> /\ b_pushed = <<>> /\ b_exported = <<>>
    /\ (b_pc = "ready" \/ PlanBuilt) =>
          /\ missing = <<>>
          /\ \A i \in DOMAIN nodes_info : nodes_info[i].loopback # NoLoopback
    /\ PlanBuilt =>
          \A n \in DOMAIN plan :
              /\ plan[n].router_id # NoLoopback
              /\ \A k \in DOMAIN Nbrs(plan, n) : Nbrs(plan, n)[k].peer # NoLoopback

\* main has ended on the report of a node without Loopback0 that is not the
\* first of a list in which other nodes have their address
Wit_C16_ReportedAndEnded ==
    /\ b_pc = "exit"
    /\ Len(nodes_info) >= 2
    /\ nodes_info[1].loopback # NoLoopback
    /\ Len(missing) < Len(nodes_info)

---------------------------------------------------------------------------
(* Specification of the export and push of a plan: every short node list,
   every node with an address of its own *)

InitBgpRender ==
    /\ b_pc = "ready"
    /\ \E names \in NameLists : nodes_info = MakeNodes(names, {})
    /\ raw_plan = <<>>
    /\ plan = <<>>
    /\ warnings = <<>>
    /\ BgpMainIdle
    /\ ClassifyIdle
    /\ OspfIdle
    /\ ToolsIdle

NextBgpRender ==
    \/ build_bgp_plan
    \/ ExportPrompt
    \/ PushPrompt

SpecBgpRender == InitBgpRender /\ [][NextBgpRender]_vars

\* the names of the neighbor-groups a configuration defines
DefinedGroups(cfg) == {cfg.groups[k].name : k \in DOMAIN cfg.groups}

\* the neighbor-group stanza of a name in a configuration
GroupNamed(cfg, name) == cfg.groups[CHOOSE k \in DOMAIN cfg.groups : cfg.groups[k].name = name]

\* C29: rendered neighbor-groups match the plan. In the configuration
\* generated for a node of the plan there is one neighbor statement per plan
\* neighbor, in order; each uses a neighbor-group that the same
\* configuration defines (never UNKNOWN), and that group is a
\* route-reflector-client group if and only if the plan entry's relation
\* is RR-to-Client.
Thm_C29_RenderedGroupsMatchPlan ==
    \A n \in DOMAIN b_configs :
        /\ DOMAIN b_configs[n].neighbors = DOMAIN Nbrs(plan, n)
        /\ \A k \in DOMAIN b_configs[n].neighbors :
              LET st == b_configs[n].neighbors[k] IN
              /\ st.neighbor = Nbrs(plan, n)[k].peer
              /\ st.use_group # "UNKNOWN"
              /\ st.use_group \in DefinedGroups(b_configs[n])
              /\ GroupNamed(b_configs[n], st.use_group).rrclient
                    <=> (Nbrs(plan, n)[k].group = "RR-to-Client")

\* configurations were generated for a plan in which a chr node is client
\* of a crr node and reflector of an ahr node
Wit_C29_ChrBothWays ==
    /\ b_configs # <<>>
    /\ \E h \in NamesOfRole("chr") : \E r \in NamesOfRole("crr") :
       \E a \in NamesOfRole("ahr") :
          /\ HasEntry(plan, h, r, "Client-to-RR")
          /\ HasEntry(plan, h, a, "RR-to-Client")

---------------------------------------------------------------------------
(* Properties of ospf-wizard's main: router-ids, absent neighbors, snapshot *)

\* C17: a missing address is surfaced before planning. A router on which
\* no Loopback0 address is found is given no router-id, neither in the
\* preview nor in the configuration pushed (no substitute address stands in).
Cex_C17_NoSubstituteRouterId ==
    \A r \in Range(routers) :
        get_loopback_ip(r) = None =>
            /\ r \in DOMAIN preview => preview[r].rid = None
            /\ r \in DOMAIN pushed =>
                  \A k \in DOMAIN pushed[r].processes :
                      pushed[r].processes[k].router_id = None

\* C18: an edge observation that names a node absent from the node list is
\* a hard failure. No link a router reports to a neighbor that is not among
\* the discovered routers is given a process and area, neither in the
\* preview nor in the configuration pushed.
Cex_C18_AbsentNeighborUnassigned ==
    /\ \A r \in DOMAIN preview : \A k \in DOMAIN preview[r].links :
          preview[r].links[k].neigh \in Range(routers)
    /\ \A r \in DOMAIN pushed : \A k \in DOMAIN pushed[r].links :
          NeighOn(r, pushed[r].links[k].intf) \in Range(routers)

\* the interface stanzas the previewed links of a router stand for
PreviewedStanzas(r) ==
    [k \in DOMAIN preview[r].links |->
        [pid  |-> preview[r].links[k].pid,
         area |-> preview[r].links[k].area,
         intf |-> preview[r].links[k].intf]]

\* C19: one atomic discovery snapshot per run. What is pushed to a router
\* after the confirmation is what the preview showed for it: the previewed
\* processes, each with the previewed router-id, and one interface stanza
\* per previewed link with the previewed process and area.
Cex_C19_PushedIsPreviewed ==
    \A r \in DOMAIN pushed :
        /\ [k \in DOMAIN pushed[r].processes |-> pushed[r].processes[k].pid]
              = preview[r].processes
        /\ \A k \in DOMAIN pushed[r].processes :
              pushed[r].processes[k].router_id = preview[r].rid
        /\ pushed[r] # NotConfigured => pushed[r].links = PreviewedStanzas(r)

---------------------------------------------------------------------------
(* Two planning runs on the same input *)

\* a second plan = build_bgp_plan(nodes_info, asn) in the same process
build_bgp_plan_again ==
    /\ b_pc = "planned"
    /\ plan_again' = DedupPlan(RawPlan(nodes_info))
    /\ warnings_again' = ValidationWarnings(nodes_info, plan_again')
    /\ b_pc' = "planned_again"
    /\ UNCHANGED <<nodes_info, raw_plan, plan, warnings, bgp_main_vars,
                   classify_vars, ospf_vars, tools_vars>>

InitTwoRuns == InitBgp \/ InitOspf

\* build_bgp_plan called twice on one node list; main of ospf-wizard, whose
\* preview loop and apply loop both run the link assignment on the routers'
\* link observations
NextTwoRuns ==
    \/ build_bgp_plan
    \/ build_bgp_plan_again
    \/ NextOspf

SpecTwoRuns == InitTwoRuns /\ [][NextTwoRuns]_vars

---------------------------------------------------------------------------
(* The confirmation gate of both wizards *)

InitWizards == InitBgpMain \/ InitOspfLab

NextWizards ==
    \/ NextBgpMain
    \/ NextOspfLab

SpecWizards == InitWizards /\ [][NextWizards]_vars

\* the routers configuration has been sent to
Configured == {r \in DOMAIN pushed : pushed[r] # NotConfigured}

\* C20: confirmation gate. Configuration is sent to a device only after the
\* whole plan (bgp-wizard) or the preview of every router (ospf-wizard) has
\* been built and the push prompt answered y; after any other answer the
\* run has ended and nothing was sent to any device.
Thm_C20_ConfirmationGate ==
    /\ b_pushed # <<>> =>
          /\ b_confirm = "y"
          /\ b_pc = "done"
          /\ Range(b_pushed) = DOMAIN plan
          /\ DOMAIN plan = PlanKeys(nodes_info)
    /\ b_confirm \notin {NoResult, "y"} => (b_pushed = <<>> /\ b_pc = "done")
    /\ b_pc \notin {"done"} => b_pushed = <<>>
    /\ pushed # <<>> =>
          /\ o_confirm = "y"
          /\ o_pc \in {"apply", "done"}
          /\ DOMAIN preview = Range(routers)
    /\ o_confirm \notin {NoResult, "y"} => (pushed = <<>> /\ o_pc = "aborted")
    /\ o_pc \in {"mode", "preview", "aborted"} => pushed = <<>>

\* bgp-wizard has pushed to every node of a plan of several nodes after the
\* answer y
Wit_C20_PushedAfterYes ==
    /\ b_pc = "done"
    /\ b_confirm = "y"
    /\ Len(b_pushed) >= 2

---------------------------------------------------------------------------
(* Properties of the configuration ospf-wizard pushes: processes and links *)

\* main runs in rule-based mode
RuleBased == ~(enforce_fallback \/ force_all)

\* the OSPF processes that appear in the configuration pushed to router r:
\* those of its "router ospf <pid>" lines
PushedPids(r) ==
    {pushed[r].processes[k].pid : k \in DOMAIN pushed[r].processes}
    \cup {pushed[r].links[k].pid : k \in DOMAIN pushed[r].links}

\* C21: Loopback0 is passive in all OSPF processes. For every router that
\* configure_ospf configures, every OSPF process that appears in the
\* configuration pushed to it has the stanza that puts interface Loopback0
\* into the process as passive.
Cex_C21_LoopbackPassiveInAll ==
    \A r \in Configured : \A pid \in PushedPids(r) :
        \E k \in DOMAIN pushed[r].processes :
            /\ pushed[r].processes[k].pid = pid
            /\ pushed[r].processes[k].passive = "Loopback0"

\* C22: same-tier ch rule. In rule-based mode every link between two ch
\* routers is given process 1 / core area if an endpoint interface label
\* ends with 0/0/0/0, and process 10 / distribution area otherwise.
Cex_C22_ChChRule ==
    RuleBased =>
        \A r \in DOMAIN preview : \A k \in DOMAIN preview[r].links :
            LET e == preview[r].links[k] IN
            (StartsWith(r, <<"c", "h">>) /\ StartsWith(e.neigh, <<"c", "h">>)) =>
                <<e.pid, e.area>> =
                    IF EndsWith(e.intf, Suffix0000) \/ EndsWith(e.neigh_intf, Suffix0000)
                    THEN <<1, OSPF_AREA_CORE>>
                    ELSE <<10, OSPF_AREA_DISTRIBUTION>>

\* the (pid, area) of the stanzas pushed to router r for its interface intf
PlacedAt(r, intf) ==
    {<<pushed[r].links[k].pid, pushed[r].links[k].area>> :
        k \in {j \in DOMAIN pushed[r].links : pushed[r].links[j].intf = intf}}

\* C27: both ends of a link agree. In rule-based mode, once main has
\* configured the routers, for every link between two routers of the list
\* the interface of one end is placed into process p and area x exactly if
\* the interface of the other end is; and link_to_ospf gives the same
\* result for the link's endpoints in either order.
Cex_C27_BothEndsAgree ==
    (RuleBased /\ o_pc = "done") =>
        \A k \in DOMAIN links :
            LET l == links[k] IN
            /\ link_to_ospf(l.a, l.ia, l.b, l.ib) = link_to_ospf(l.b, l.ib, l.a, l.ia)
            /\ l.b \in Range(routers) => PlacedAt(l.a, l.ia) = PlacedAt(l.b, l.ib)

\* C28: a link is only placed in a process the router's role runs. In
\* rule-based mode every interface stanza pushed to a router of role r names
\* a process of ospf_processes_for_role(r).
Cex_C28_LinkProcessOfRole ==
    RuleBased =>
        \A r \in Configured : \A k \in DOMAIN pushed[r].links :
            pushed[r].links[k].pid \in Range(ospf_processes_for_role(get_router_role(r)))

---------------------------------------------------------------------------
(* loop-the-loop.py: Loopback0 addresses from per-category pools *)

\* POOLS[key]["start"]
PoolStart ==
    ("crr" :> 1) @@ ("c" :> 10) @@ ("d" :> 30) @@ ("a" :> 60) @@ ("s" :> 90)
    @@ ("CE" :> 120) @@ ("other" :> 150)

\* categorize_router: the pool key of a router name
categorize_router(name) ==
    IF StartsWith(name, <<"c", "r", "r">>) THEN "crr"
    ELSE IF StartsWith(name, <<"c">>) THEN "c"
    ELSE IF StartsWith(name, <<"d">>) THEN "d"
    ELSE IF StartsWith(name, <<"a">>) THEN "a"
    ELSE IF StartsWith(name, <<"s">>) THEN "s"
    ELSE IF StartsWith(name, <<"C", "E">>) THEN "CE"
    ELSE "other"

\* sum(pool["counter"] for pool in POOLS.values())
CounterTotal(pools) ==
    pools["crr"] + pools["c"] + pools["d"] + pools["a"] + pools["s"]
    + pools["CE"] + pools["other"]

\* next_ipv4(name, fallback): the address f"1.1.1.{octet}" it returns, as
\* its four octets, and POOLS after the call
next_ipv4(pools, name, fallback) ==
    IF fallback
    THEN [ipv4  |-> <<1, 1, 1, CounterTotal(pools) + 1>>,
          pools |-> [pools EXCEPT !["other"] = @ + 1]]
    ELSE LET pool_key == categorize_router(name)
             counted  == [pools EXCEPT ![pool_key] = @ + 1]
         IN  [ipv4  |-> <<1, 1, 1, PoolStart[pool_key] + counted[pool_key] - 1>>,
              pools |-> counted]

\* the decimal digit characters
DecimalDigit == <<"0", "1", "2", "3", "4", "5", "6", "7", "8", "9">>

\* str(n) for a natural number n
RECURSIVE Decimal(_)
Decimal(n) ==
    IF n < 10 THEN <<DecimalDigit[n + 1]>>
    ELSE Append(Decimal(n \div 10), DecimalDigit[(n % 10) + 1])

\* ipv6_from_ipv4: f"fd00::{last_octet}", the last octet written in decimal
\* digits as the low group of the address
ipv6_from_ipv4(ipv4) == <<"f", "d", "0", "0", ":", ":">> \o Decimal(ipv4[4])

\* has_matches: some router falls into a category other than "other"
has_matches == \E i \in DOMAIN xrd_nodes : categorize_router(xrd_nodes[i]) # "other"

\* main, lines 156-159: one iteration of the loop over xrd_nodes
AssignLoopback ==
    /\ l_pc = "run"
    /\ Len(l_configured) < Len(xrd_nodes)
    /\ LET name == xrd_nodes[Len(l_configured) + 1]
           call == next_ipv4(POOLS, name, ~has_matches)
       IN  /\ POOLS' = call.pools
           /\ l_configured' = Append(l_configured,
                                     [name |-> name,
                                      ipv4 |-> call.ipv4,
                                      ipv6 |-> ipv6_from_ipv4(call.ipv4)])
    /\ UNCHANGED <<l_pc, xrd_nodes, classify_vars, bgp_vars, ospf_vars, cfg_vars,
                   lic_vars>>

\* main, line 161
LoopDone ==
    /\ l_pc = "run"
    /\ Len(l_configured) = Len(xrd_nodes)
    /\ l_pc' = "done"
    /\ UNCHANGED <<xrd_nodes, POOLS, l_configured, classify_vars, bgp_vars, ospf_vars,
                   cfg_vars, lic_vars>>

---------------------------------------------------------------------------
(* Specification of loop-the-loop's main: labs of every category, and labs
   of route reflectors and core routers large enough to fill a pool *)

\* most routers of a lab of route reflectors and core routers
MaxPoolRouters == 11
\* most routers of a lab with routers of every category
MaxMixedRouters == 3

\* a name prefix of every category
LoopPrefixes ==
    {<<"c", "r", "r">>, <<"c", "c", "r">>, <<"d", "h", "r">>, <<"a", "s", "r">>,
     <<"s", "a", "r">>, <<"C", "E">>, <<"x", "r">>}

\* the names of a lab: the k-th router is its prefix followed by k
NumberedNames(prefixes) == [k \in DOMAIN prefixes |-> prefixes[k] \o Decimal(k)]

\* the router lists of the labs
LoopLabs ==
    {NumberedNames(ps) : ps \in SeqsUpTo(LoopPrefixes, MaxMixedRouters)}
    \cup {NumberedNames(ps) :
             ps \in SeqsUpTo({<<"c", "r", "r">>, <<"c", "c", "r">>}, MaxPoolRouters)}

InitLoop ==
    /\ l_pc = "run"
    /\ xrd_nodes \in LoopLabs
    /\ POOLS = [k \in PoolKeys |-> 0]
    /\ l_configured = <<>>
    /\ CfgIdle
    /\ LicIdle
    /\ ClassifyIdle
    /\ BgpIdle
    /\ OspfIdle

NextLoop ==
    \/ AssignLoopback
    \/ LoopDone

SpecLoop == InitLoop /\ [][NextLoop]_vars

\* the routers configured before position i that fall into the category of
\* the router at position i
EarlierOfCategory(i) ==
    {j \in 1..(i - 1) :
        categorize_router(l_configured[j].name) = categorize_router(l_configured[i].name)}

\* C24: loopback addresses are unique. No two routers configured in one run
\* are given the same IPv4 address or the same IPv6 address; with some
\* router of a known category, the k-th router of a category gets that
\* category's start octet plus k-1; otherwise (fallback) the routers get
\* 1.1.1.1, 1.1.1.2, ... in order; the IPv6 address carries the last octet.
Cex_C24_LoopbacksUnique ==
    /\ \A i, j \in DOMAIN l_configured :
          i # j => /\ l_configured[i].ipv4 # l_configured[j].ipv4
                   /\ l_configured[i].ipv6 # l_configured[j].ipv6
    /\ \A i \in DOMAIN l_configured :
          /\ l_configured[i].name = xrd_nodes[i]
          /\ l_configured[i].ipv4 =
                IF has_matches
                THEN <<1, 1, 1, PoolStart[categorize_router(xrd_nodes[i])]
                                 + Cardinality(EarlierOfCategory(i))>>
                ELSE <<1, 1, 1, i>>
          /\ l_configured[i].ipv6 = ipv6_from_ipv4(l_configured[i].ipv4)

---------------------------------------------------------------------------
(* get_forti_config.py and get_forti_config_tftp.py: save_config *)

\* the default of the parameter max_backups
max_backups == 5

\* the suffix of a file of the config directory: 0 for <node>.cfg, k for
\* <node>.cfg.bak<k>
Base == 0

\* os.rename(src, dst) in a directory: dst is replaced, src is gone
os_rename(dir, src, dst) ==
    [f \in (DOMAIN dir \ {src}) \cup {dst} |-> IF f = dst THEN dir[src] ELSE dir[f]]

\* for i in range(max_backups, 0, -1): rename the previous file, when it
\* exists, to .bak<i>; the loop from i downwards
RECURSIVE Rotate(_, _)
Rotate(dir, i) ==
    IF i = 0 THEN dir
    ELSE Rotate(IF (i - 1) \in DOMAIN dir THEN os_rename(dir, i - 1, i) ELSE dir, i - 1)

\* f.write(config) into <node>.cfg, or shutil.move(tftp_path, dest)
WriteBase(dir, config) ==
    [f \in DOMAIN dir \cup {Base} |-> IF f = Base THEN config ELSE dir[f]]

\* save_config of get_forti_config.py: rotate, then write the new config
save_config(dir, config) == WriteBase(Rotate(dir, max_backups), config)

\* save_config of get_forti_config_tftp.py: rotate, then move the TFTP file
\* to <node>.cfg if it exists
save_config_tftp(dir, config, tftp_exists) ==
    IF tftp_exists THEN WriteBase(Rotate(dir, max_backups), config)
    ELSE Rotate(dir, max_backups)

---------------------------------------------------------------------------
(* Specification of save_config: sequences of calls of both variants for
   one node, the TFTP file present or missing *)

\* most save_config calls for the node
MaxSaves == 7

\* the config a call is given: the configs are numbered by call
NextConfig == Len(saved) + 1

\* a call of save_config of get_forti_config.py
SaveConfig ==
    /\ Len(saved) < MaxSaves
    /\ config_dir' = save_config(config_dir, NextConfig)
    /\ saved' = <<NextConfig>> \o saved
    /\ stored' = <<NextConfig>> \o stored
    /\ UNCHANGED <<classify_vars, bgp_vars, ospf_vars, loop_vars, lic_vars>>

\* a call of save_config of get_forti_config_tftp.py
SaveConfigTftp ==
    /\ Len(saved) < MaxSaves
    /\ \E tftp_exists \in BOOLEAN :
          /\ config_dir' = save_config_tftp(config_dir, NextConfig, tftp_exists)
          /\ stored' = IF tftp_exists THEN <<NextConfig>> \o stored ELSE stored
    /\ saved' = <<NextConfig>> \o saved
    /\ UNCHANGED <<classify_vars, bgp_vars, ospf_vars, loop_vars, lic_vars>>

InitSave ==
    /\ CfgIdle
    /\ LoopIdle
    /\ LicIdle
    /\ ClassifyIdle
    /\ BgpIdle
    /\ OspfIdle

NextSave ==
    \/ SaveConfig
    \/ SaveConfigTftp

SpecSave == InitSave /\ [][NextSave]_vars

\* C26: config backup rotation. After any sequence of save_config calls
\* for a node, of either variant and also with calls that could not store a
\* new config, <node>.cfg holds the most recently saved config,
\* <node>.cfg.bak<k> holds the config saved k calls earlier for
\* 1 <= k <= max_backups, and no backup above max_backups exists.
Cex_C26_BackupRotation ==
    /\ DOMAIN config_dir = {k \in 0..max_backups : k + 1 <= Len(stored)}
    /\ \A k \in DOMAIN config_dir : config_dir[k] = stored[k + 1]

(***************************************************************************)
(* fortilic.py: run_install_mode                                           *)
(***************************************************************************)

\* the suffix of a license file
DotLic == <<".", "l", "i", "c">>

\* the nodes of the lab: one FortiGate named fg-..., one FortiGate with
\* another name, one node that is no FortiGate
fg_1 == <<"f", "g", "-", "1">>
fw1  == <<"f", "w", "1">>
sw1  == <<"s", "w", "1">>

KindFortigate == <<"f", "o", "r", "t", "i", "n", "e", "t", "_",
                   "f", "o", "r", "t", "i", "g", "a", "t", "e">>
KindLinux     == <<"l", "i", "n", "u", "x">>

\* data[lab_name] of containerlab inspect
LabNodes ==
    << [name |-> fg_1, kind |-> KindLinux],
       [name |-> fw1,  kind |-> KindFortigate],
       [name |-> sw1,  kind |-> KindLinux] >>

\* get_fortigate_nodes: is_fg_name or is_fg_kind
get_fortigate_nodes(data) ==
    SelectSeq(data, LAMBDA node :
        \/ StartsWith(node.name, <<"f", "g", "-">>)
        \/ Contains(Lower(node.kind), <<"f", "o", "r", "t", "i", "g", "a", "t", "e">>))

\* used_suffix_re.search(name): r"_fg-[^/]+\.lic$" with re.IGNORECASE
used_suffix_re(name) ==
    /\ EndsWith(Lower(name), DotLic)
    /\ \E k \in 1..Len(name) :
          /\ k + 3 < Len(name) - Len(DotLic)
          /\ SubSeq(Lower(name), k, k + 3) = <<"_", "f", "g", "-">>

\* list.sort() on a set of distinct names
RECURSIVE SortNames(_)
SortNames(S) ==
    IF S = {} THEN <<>>
    ELSE LET m == CHOOSE x \in S : \A y \in S : StrLeq(x, y)
         IN  <<m>> \o SortNames(S \ {m})

\* find_unused_license_files: the *.lic files not tagged as used, sorted
find_unused_license_files(dir) ==
    SortNames({dir[f] : f \in {g \in DOMAIN dir :
                  EndsWith(dir[g], DotLic) /\ ~used_suffix_re(dir[g])}})

\* Path.stem: the name without its last suffix
stem(name) ==
    LET dots == {k \in 2..Len(name) : name[k] = "."}
    IN  IF dots = {} THEN name
        ELSE SubSeq(name, 1, (CHOOSE k \in dots : \A j \in dots : j <= k) - 1)

\* rename_used_license_file: f"{stem}_{hostname}.lic"
rename_used_license_file(name, hostname) ==
    stem(name) \o <<"_">> \o hostname \o DotLic

\* the file of the license directory that has this name
FileNamed(dir, name) == CHOOSE f \in DOMAIN dir : dir[f] = name

\* the sequences without repetition over the elements of a sequence
DistinctChoices(nodes) ==
    UNION {{c \in [1..n -> Range(nodes)] : \A a, b \in 1..n : a # b => c[a] # c[b]}
           : n \in 1..Len(nodes)}

\* prompt_selection: all nodes, a subset in the order typed, or nothing (exit)
prompt_selection(nodes, enough_for_all) ==
    {<<>>} \cup (IF enough_for_all THEN {nodes} ELSE {}) \cup DistinctChoices(nodes)

\* the two success lines of "execute restore vmlicense tftp"
SuccessMarks == {"Get VM license from tftp server OK.", "VM license install succeeded. Rebooting firewall."}

\* restore_vmlicense_paramiko: success_mark_1 in buff and success_mark_2 in buff
restore_ok(buff) == SuccessMarks \subseteq buff

\* bounds of the runs
MaxLicenses == 2
MaxRuns     == 2

\* the license directory holds n fresh license files
FreshLicenses(n) == [f \in 1..n |-> <<"L">> \o Decimal(f) \o DotLic]

\* summary.append((hostname, result, msg))
Report(hostname, result) == Append(summary, [hostname |-> hostname, result |-> result])

\* run_install_mode up to the loop: discovery, find_unused_license_files,
\* prompt_selection
StartRun ==
    /\ f_pc \in {"start", "crashed"}
    /\ f_runs < MaxRuns
    /\ f_runs' = f_runs + 1
    /\ \E dry \in BOOLEAN :
        LET nodes == get_fortigate_nodes(LabNodes)
            licenses == find_unused_license_files(lic_dir)
        IN  IF Len(nodes) = 0 \/ Len(licenses) = 0
            THEN /\ f_pc' = "start"
                 /\ dry_run' = FALSE
                 /\ chosen_nodes' = <<>>
                 /\ available_licenses' = <<>>
            ELSE \E chosen \in prompt_selection(nodes, Len(licenses) >= Len(nodes)) :
                   IF chosen = <<>>
                   THEN /\ f_pc' = "start"
                        /\ dry_run' = FALSE
                        /\ chosen_nodes' = <<>>
                        /\ available_licenses' = <<>>
                   ELSE /\ f_pc' = "loop"
                        /\ dry_run' = dry
                        /\ chosen_nodes' = [k \in DOMAIN chosen |-> chosen[k].name]
                        /\ available_licenses' = licenses
    /\ f_idx' = 1
    /\ summary' = <<>>
    /\ UNCHANGED <<lic_dir, tftp_dir, installed>>
    /\ UNCHANGED <<classify_vars, bgp_vars, ospf_vars, loop_vars, cfg_vars>>

\* what can happen to one device between pop(0) and the restore
Outcomes == {"connect failed", "declined", "status failed", "copy failed", "restore"}

\* one pass of "for node in chosen_nodes"
ProcessNode ==
    /\ f_pc = "loop"
    /\ f_idx <= Len(chosen_nodes)
    /\ LET hostname == chosen_nodes[f_idx]
       IN  IF available_licenses = <<>>
           THEN /\ summary' = Report(hostname, "SKIPPED")
                /\ f_pc' = "loop"
                /\ UNCHANGED <<lic_dir, tftp_dir, installed, available_licenses>>
           ELSE LET license_path == Head(available_licenses)
                    rest == Tail(available_licenses)
                IN  IF dry_run
                    THEN /\ summary' = Report(hostname, "DRY-RUN")
                         /\ available_licenses' = rest
                         /\ f_pc' = "loop"
                         /\ UNCHANGED <<lic_dir, tftp_dir, installed>>
                    ELSE \E outcome \in Outcomes :
                         IF outcome = "declined"
                         THEN \* a valid or unreadable license status, not replaced
                              /\ summary' = Report(hostname, "SKIPPED")
                              /\ available_licenses' = <<license_path>> \o rest
                              /\ f_pc' = "loop"
                              /\ UNCHANGED <<lic_dir, tftp_dir, installed>>
                         ELSE IF outcome \in {"connect failed", "status failed", "copy failed"}
                         THEN /\ summary' = Report(hostname, "FAILED")
                              /\ available_licenses' = <<license_path>> \o rest
                              /\ f_pc' = "loop"
                              /\ UNCHANGED <<lic_dir, tftp_dir, installed>>
                         ELSE \* shutil.copy2, then restore_vmlicense_paramiko
                              /\ available_licenses' = rest
                              /\ \/ \* client.connect raises: nothing catches it
                                    /\ f_pc' = "crashed"
                                    /\ tftp_dir' = tftp_dir \cup {license_path}
                                    /\ UNCHANGED <<summary, lic_dir, installed>>
                                 \/ \E buff \in SUBSET SuccessMarks :
                                    /\ f_pc' = "loop"
                                    /\ IF ~restore_ok(buff)
                                       THEN /\ summary' = Report(hostname, "FAILED")
                                            /\ tftp_dir' = tftp_dir \cup {license_path}
                                            /\ UNCHANGED <<lic_dir, installed>>
                                       ELSE \* rename_used_license_file, then unlink
                                            \* of the copy this run has just made
                                            LET f == FileNamed(lic_dir, license_path)
                                            IN
                                            /\ summary' = Report(hostname, "SUCCESS")
                                            /\ lic_dir' = [lic_dir EXCEPT ![f] =
                                                  rename_used_license_file(license_path, hostname)]
                                            /\ tftp_dir' = tftp_dir \ {license_path}
                                            /\ installed' = Append(installed, <<hostname, f>>)
    /\ f_idx' = IF f_pc' = "crashed" THEN f_idx ELSE f_idx + 1
    /\ UNCHANGED <<f_runs, dry_run, chosen_nodes>>
    /\ UNCHANGED <<classify_vars, bgp_vars, ospf_vars, loop_vars, cfg_vars>>

\* the summary is printed and run_install_mode returns
EndRun ==
    /\ f_pc = "loop"
    /\ f_idx > Len(chosen_nodes)
    /\ f_pc' = "start"
    /\ UNCHANGED <<f_runs, dry_run, lic_dir, tftp_dir, chosen_nodes,
                   available_licenses, f_idx, summary, installed>>
    /\ UNCHANGED <<classify_vars, bgp_vars, ospf_vars, loop_vars, cfg_vars>>

InitLic ==
    /\ f_pc = "start"
    /\ f_runs = 0
    /\ dry_run = FALSE
    /\ lic_dir \in {FreshLicenses(n) : n \in 0..MaxLicenses}
    /\ tftp_dir = {}
    /\ chosen_nodes = <<>>
    /\ available_licenses = <<>>
    /\ f_idx = 0
    /\ summary = <<>>
    /\ installed = <<>>
    /\ LoopIdle
    /\ CfgIdle
    /\ ClassifyIdle
    /\ BgpIdle
    /\ OspfIdle

NextLic == StartRun \/ ProcessNode \/ EndRun

SpecLic == InitLic /\ [][NextLic]_vars

\* C30: a license file that a restore reported installed is not among the
\* files find_unused_license_files offers, and is installed on one device only
Cex_C30_UsedLicenseNotOfferedAgain ==
    /\ \A p \in Range(installed) :
          lic_dir[p[2]] \notin Range(find_unused_license_files(lic_dir))
    /\ \A p, q \in Range(installed) : p[2] = q[2] => p[1] = q[1]

\* C25: every pass of the loop over the selected devices reports the device,
\* as SUCCESS exactly when the restore output held both success strings, and
\* then the license file is renamed with the hostname and the TFTP copy is
\* deleted; every other pass reports FAILED, SKIPPED or DRY-RUN and renames
\* and deletes nothing
LicensePass ==
    /\ f_pc = "loop"
    /\ f_idx <= Len(chosen_nodes)

BookkeepingFollowsRestore ==
    /\ Len(summary') = Len(summary) + 1
    /\ summary'[Len(summary')].hostname = chosen_nodes[f_idx]
    /\ IF installed' # installed
       THEN LET license_path == Head(available_licenses)
                f == FileNamed(lic_dir, license_path)
            IN  /\ summary'[Len(summary')].result = "SUCCESS"
                /\ installed' = Append(installed, <<chosen_nodes[f_idx], f>>)
                /\ lic_dir' = [lic_dir EXCEPT ![f] =
                      stem(license_path) \o <<"_">> \o chosen_nodes[f_idx] \o DotLic]
                /\ license_path \notin tftp_dir'
       ELSE /\ summary'[Len(summary')].result \in {"FAILED", "SKIPPED", "DRY-RUN"}
            /\ lic_dir' = lic_dir
            /\ tftp_dir \subseteq tftp_dir'

Cex_C25_BookkeepingFollowsRestore ==
    [][LicensePass => BookkeepingFollowsRestore]_vars

===========================================================================
